---- MODULE Spec2Model ----
(***************************************************************************)
(* Schema inference and unification engine of bodkin.                      *)
(*                                                                         *)
(* The engine (type Bodkin) keeps three trees of fieldPos nodes: the       *)
(* original tree, the cumulative tree (old) and the tree of the last       *)
(* record (new).  Nodes live in a heap and point at each other by index,   *)
(* because graft shares the children of a per-record node with the         *)
(* cumulative tree.  Strings that the code splits or joins (dotted paths,  *)
(* field names) are sequences of tokens: "$", ".", "elem" and the letters  *)
(* used as keys.                                                           *)
(***************************************************************************)
EXTENDS Integers, Sequences, FiniteSets, TLC

VARIABLES heap, original, old, new, knownFields, untypedFields,
          unificationCount, maxCount, typeConversion, inferTimeUnits,
          quotedValuesAreStrings, err, changes, rr, scan, datum,
          cfgMaxCount, calls, last, repeated, capReset,
          dr, chans, procs, caller

vars == <<heap, original, old, new, knownFields, untypedFields,
          unificationCount, maxCount, typeConversion, inferTimeUnits,
          quotedValuesAreStrings, err, changes, rr, scan, datum,
          cfgMaxCount, calls, last, repeated, capReset,
          dr, chans, procs, caller>>

\* the DataReader of package reader, its channels, its goroutines and the
\* goroutine that calls its methods
dataReader == <<dr, chans, procs, caller>>

(***************************************************************************)
(* Bounds of the model and constants of the program.                       *)
(***************************************************************************)
\* number of API calls explored from construction
MaxCalls == 3

\* math.MaxInt of a 32-bit build
MaxInt == 2147483647

(***************************************************************************)
(* Arrow data types and fields.  A type is its type ID, the time unit of   *)
(* a timestamp and the child fields of a nested type.                      *)
(***************************************************************************)
T(id, unit, sub) == [id |-> id, unit |-> unit, sub |-> sub]

Field(name, type) == [name |-> name, type |-> type]

\* the Type of the zero arrow.Field
NilType == T("NIL", "", <<>>)

ZeroField == Field(<<>>, NilType)

Int8 == T("INT8", "", <<>>)

Int64 == T("INT64", "", <<>>)

Float64 == T("FLOAT64", "", <<>>)

Boolean == T("BOOL", "", <<>>)

String == T("STRING", "", <<>>)

Binary == T("BINARY", "", <<>>)

Date32 == T("DATE32", "", <<>>)

Time64ns == T("TIME64", "ns", <<>>)

Timestamp_us == T("TIMESTAMP", "us", <<>>)

Timestamp_ms == T("TIMESTAMP", "ms", <<>>)

StructOf(fields) == T("STRUCT", "", fields)

ListOf(et) == T("LIST", "", <<Field(<<"item">>, et)>>)

UpgradableTypes == {"INT8", "INT16", "INT32", "INT64", "DATE32", "TIME64", "TIMESTAMP", "STRING"}

IntegerIDs == {"INT8", "INT16", "INT32", "INT64", "UINT8", "UINT16", "UINT32", "UINT64"}

FloatIDs == {"FLOAT16", "FLOAT32", "FLOAT64"}

(***************************************************************************)
(* Go maps keyed by field name: a set of key/value pairs with unique keys. *)
(***************************************************************************)
MapHas(cm, k) == \E e \in cm : e.k = k

MapGet(cm, k) == (CHOOSE e \in cm : e.k = k).v

MapSet(cm, k, v) == {e \in cm : e.k # k} \cup {[k |-> k, v |-> v]}

(***************************************************************************)
(* fieldPos nodes.  Node 0 is the nil pointer.                             *)
(***************************************************************************)
newFieldPos(h) ==
    Append(h, [root |-> Len(h) + 1, parent |-> 0, name |-> <<>>, path |-> <<>>,
               depth |-> 0, index |-> -1, field |-> ZeroField,
               children |-> <<>>, childmap |-> {}])

RECURSIVE walkUp(_, _, _)
walkUp(h, id, n) ==
    IF n = 0 THEN <<>>
    ELSE walkUp(h, h[id].parent, n - 1) \o <<h[id].name>>

\* namePath of a node that has no path yet: depth names, innermost last
namePath(h, f, childName) == walkUp(h, f, h[f].depth) \o <<childName>>

newChild(h, f, childName) ==
    [root |-> h[f].root, parent |-> f, name |-> childName,
     path |-> namePath(h, f, childName), depth |-> h[f].depth + 1,
     index |-> Len(h[f].children), field |-> ZeroField,
     children |-> <<>>, childmap |-> {}]

\* assignChild that replaces the children instead of appending to them
assignChildOnly(h, f, c) ==
    [h EXCEPT ![f].children = <<c>>,
              ![f].childmap = MapSet(@, h[c].name, c)]

assignChild(h, f, c) ==
    [h EXCEPT ![f].children = Append(@, c),
              ![f].childmap = MapSet(@, h[c].name, c)]

RECURSIVE mapChildrenFrom(_, _, _, _)
mapChildrenFrom(h, cm, cs, i) ==
    IF i > Len(cs) THEN cm
    ELSE mapChildrenFrom(h, MapSet(cm, h[cs[i]].name, cs[i]), cs, i + 1)

\* mapChildren that maps nothing
mapChildrenNone(h, f) == [h EXCEPT ![f].childmap = {}]

mapChildren(h, f) == [h EXCEPT ![f].childmap = mapChildrenFrom(h, @, h[f].children, 1)]

\* the arrow fields of the children of f, in child order
childFields(h, f) == [i \in 1..Len(h[f].children) |-> h[h[f].children[i]].field]

\* 0 is ErrPathNotFound, -1 the error of the degenerate empty path
RECURSIVE getPath(_, _, _)
getPath(h, f, path) ==
    IF Len(path) = 0 THEN -1
    ELSE IF ~MapHas(h[f].childmap, path[1]) THEN 0
    ELSE LET node == MapGet(h[f].childmap, path[1])
         IN IF Len(path) = 1 THEN node ELSE getPath(h, node, Tail(path))

RECURSIVE joinDots(_, _)
joinDots(path, i) ==
    IF i > Len(path) THEN <<>>
    ELSE path[i] \o (IF i + 1 # Len(path) + 1 THEN <<".">> ELSE <<>>) \o joinDots(path, i + 1)

dotPathOf(path) == <<"$">> \o joinDots(path, 1)

dotPath(h, f) == dotPathOf(h[f].path)

(***************************************************************************)
(* Decoded input.  An object is a sequence of entries in the order in which *)
(* the walker's range over the Go map visits them.  A scalar is its Go     *)
(* type and, for a string, the set of matchers its text matches.           *)
(***************************************************************************)
Leaf(go, ms) == [go |-> go, ms |-> ms]

NoLeaf == Leaf("", {})

Entry(k, kind, val, items) == [k |-> k, kind |-> kind, val |-> val, items |-> items]

Scalar(k, val) == Entry(<<k>>, "scalar", val, <<>>)

Null(k) == Entry(<<k>>, "null", NoLeaf, <<>>)

EmptyList(k) == Entry(<<k>>, "emptylist", NoLeaf, <<>>)

Object(k, items) == Entry(<<k>>, "struct", NoLeaf, items)

ListOfScalar(k, val) == Entry(<<k>>, "listscalar", val, <<>>)

ListOfObject(k, items) == Entry(<<k>>, "liststruct", NoLeaf, items)

JInt == Leaf("json.Number:int", {})

JFloat == Leaf("json.Number:float", {})

GoInt8 == Leaf("int8", {})

GoBool == Leaf("bool", {})

StrPlain == Leaf("string", {})

StrDate == Leaf("string", {"date"})

StrTime == Leaf("string", {"time"})

StrTimestamp == Leaf("string", {"timestamp"})

StrQuotedInt == Leaf("string", {"integer", "float"})

\* goType2Arrow with floatMatcher tried before integerMatcher
goType2ArrowFloatFirst(val) ==
    IF val.go = "string"
    THEN IF inferTimeUnits /\ "timestamp" \in val.ms THEN Timestamp_us
         ELSE IF inferTimeUnits /\ "date" \in val.ms THEN Date32
         ELSE IF inferTimeUnits /\ "time" \in val.ms THEN Time64ns
         ELSE IF ~quotedValuesAreStrings /\ "bool" \in val.ms THEN Boolean
         ELSE IF ~quotedValuesAreStrings /\ "float" \in val.ms THEN Float64
         ELSE IF ~quotedValuesAreStrings /\ "integer" \in val.ms THEN Int64
         ELSE String
    ELSE Binary

\* goType2Arrow maps a Go value to an Arrow DataType
goType2Arrow(val) ==
    CASE val.go = "json.Number:int" -> Int64
      [] val.go = "json.Number:float" -> Float64
      [] val.go = "int8" -> Int8
      [] val.go = "bool" -> Boolean
      [] val.go = "string" ->
            IF inferTimeUnits /\ "timestamp" \in val.ms THEN Timestamp_us
            ELSE IF inferTimeUnits /\ "date" \in val.ms THEN Date32
            ELSE IF inferTimeUnits /\ "time" \in val.ms THEN Time64ns
            ELSE IF ~quotedValuesAreStrings /\ "bool" \in val.ms THEN Boolean
            ELSE IF ~quotedValuesAreStrings /\ "integer" \in val.ms THEN Int64
            ELSE IF ~quotedValuesAreStrings /\ "float" \in val.ms THEN Float64
            ELSE String
      [] OTHER -> Binary

(***************************************************************************)
(* The walker: mapToArrow builds the fieldPos tree of one record under f.  *)
(***************************************************************************)
RECURSIVE mapToArrow(_, _, _)
RECURSIVE mapToArrowFrom(_, _, _, _)
RECURSIVE sliceElemType(_, _, _)

sliceElemTypeOnce(h, f, e) ==
    IF e.kind = "liststruct"
    THEN LET c == Len(h) + 1
             h1 == mapToArrow(Append(h, newChild(h, f, <<"elem">>)), c, e.items)
         IN [heap |-> assignChild(h1, f, c), et |-> StructOf(childFields(h1, c))]
    ELSE [heap |-> h, et |-> goType2Arrow(e.val)]

\* the result is the heap and the element type
sliceElemType(h, f, e) ==
    IF e.kind = "liststruct"
    THEN LET c == Len(h) + 1
             h1 == mapToArrow(Append(h, newChild(h, f, h[f].name \o <<".", "elem">>)), c, e.items)
         IN [heap |-> assignChild(h1, f, c), et |-> StructOf(childFields(h1, c))]
    ELSE [heap |-> h, et |-> goType2Arrow(e.val)]

mapToArrowFrom(h, f, m, i) ==
    IF i > Len(m) THEN h
    ELSE LET e == m[i]
             c == Len(h) + 1
             h0 == Append(h, newChild(h, f, e.k))
             h1 == CASE e.kind = "struct" ->
                        LET hs == mapToArrow(h0, c, e.items)
                        IN IF Len(hs[c].children) # 0
                           THEN assignChild([hs EXCEPT ![c].field = Field(e.k, StructOf(childFields(hs, c)))], f, c)
                           ELSE hs
                     [] e.kind = "emptylist" -> h0
                     [] e.kind \in {"listscalar", "liststruct"} ->
                        LET r == sliceElemType(h0, c, e)
                        IN assignChild([r.heap EXCEPT ![c].field = Field(e.k, ListOf(r.et))], f, c)
                     [] e.kind = "null" -> h0
                     [] OTHER ->
                        assignChild([h0 EXCEPT ![c].field = Field(e.k, goType2Arrow(e.val))], f, c)
         IN mapToArrowFrom(h1, f, m, i + 1)

mapToArrow(h, f, m) ==
    LET h1 == mapToArrowFrom(h, f, m, 1)
    IN [h1 EXCEPT ![f].field = Field(h1[f].name, StructOf(childFields(h1, f)))]

(***************************************************************************)
(* The unifier.  A merge state is the heap, the change log and a flag set  *)
(* when the code dereferences a nil pointer.                               *)
(***************************************************************************)
Change(kind, path, from, to) == [kind |-> kind, path |-> path, from |-> from, to |-> to]

\* graft that puts its entry at the head of the change log
graftLogsFirst(st, f, n) ==
    LET h == st.heap
        g == Len(h) + 1
        h0 == Append(h, [newChild(h, f, h[n].name) EXCEPT !.field = h[n].field,
                                                           !.children = h[n].children])
        h1 == assignChild(mapChildren(h0, g), f, g)
        h2 == IF h1[f].field.type.id = "STRUCT"
              THEN LET hf == [h1 EXCEPT ![f].field =
                                 Field(h1[g].name, StructOf(Append(h1[f].field.type.sub, h1[g].field)))]
                       p == hf[f].parent
                   IN IF p # 0 /\ hf[p].field.type.id = "LIST"
                      THEN [hf EXCEPT ![p].field = Field(hf[p].name, ListOf(hf[f].field.type))]
                      ELSE hf
              ELSE h1
    IN [st EXCEPT !.heap = h2,
                  !.changes = <<Change("added", dotPath(h1, g), NilType, h1[g].field.type)>> \o @]

\* graft grafts a new field into the schema tree
graft(st, f, n) ==
    LET h == st.heap
        g == Len(h) + 1
        h0 == Append(h, [newChild(h, f, h[n].name) EXCEPT !.field = h[n].field,
                                                           !.children = h[n].children])
        h1 == assignChild(mapChildren(h0, g), f, g)
        h2 == IF h1[f].field.type.id = "STRUCT"
              THEN LET hf == [h1 EXCEPT ![f].field =
                                 Field(h1[g].name, StructOf(Append(h1[f].field.type.sub, h1[g].field)))]
                       p == hf[f].parent
                   IN IF p # 0 /\ hf[p].field.type.id = "LIST"
                      THEN [hf EXCEPT ![p].field = Field(hf[p].name, ListOf(hf[f].field.type))]
                      ELSE hf
              ELSE h1
    IN [st EXCEPT !.heap = h2,
                  !.changes = Append(@, Change("added", dotPath(h1, g), NilType, h1[g].field.type))]

\* upgradeType with the assignments to o.field left out: the change is
\* recorded but the cumulative type stays as it was
upgradeTypeNoAssign(st, o, n, t) ==
    IF st.heap[n].field.type.id \notin UpgradableTypes THEN st
    ELSE [st EXCEPT !.changes = Append(@, Change("changed", dotPath(st.heap, o),
                                                 st.heap[o].field.type, st.heap[o].field.type))]

\* Only scalar types in UpgradableTypes can be upgraded
upgradeType(st, o, n, t) ==
    LET h == st.heap
    IN IF h[n].field.type.id \notin UpgradableTypes THEN st
       ELSE LET oldType == h[o].field.type
                h1 == CASE t = "FLOAT64" -> [h EXCEPT ![o].field = Field(h[o].name, Float64)]
                        [] t = "STRING" -> [h EXCEPT ![o].field = Field(h[o].name, String)]
                        [] t = "TIMESTAMP" -> [h EXCEPT ![o].field = Field(h[o].name, Timestamp_ms)]
                        [] OTHER -> h
                p == h1[o].parent
                h2 == CASE h1[p].field.type.id = "LIST" ->
                             [h1 EXCEPT ![p].field = Field(h1[p].name, ListOf(h1[n].field.type))]
                        [] h1[p].field.type.id = "STRUCT" ->
                             [h1 EXCEPT ![p].field = Field(h1[p].name, StructOf(childFields(h1, p)))]
                        [] OTHER -> h1
            IN [st EXCEPT !.heap = h2,
                          !.changes = Append(@, Change("changed", dotPath(h2, o), oldType, h2[o].field.type))]

\* the type switch of merge with a STRING case that follows a later
\* TIMESTAMP value instead of breaking
upgradeTargetFromString(kinID, nID) ==
    CASE kinID = "NULL" -> ""
      [] kinID = "STRING" -> IF nID = "TIMESTAMP" THEN "TIMESTAMP" ELSE ""
      [] kinID \in IntegerIDs -> IF nID \in FloatIDs THEN "FLOAT64" ELSE "STRING"
      [] kinID = "FLOAT16" -> IF nID \in {"FLOAT32", "FLOAT64"} THEN nID ELSE "STRING"
      [] kinID = "FLOAT32" -> IF nID = "FLOAT64" THEN "FLOAT64" ELSE "STRING"
      [] kinID = "FLOAT64" -> IF nID \in (IntegerIDs \cup {"FLOAT16", "FLOAT32"}) THEN "" ELSE "STRING"
      [] kinID = "TIMESTAMP" -> IF nID = "TIME64" THEN "STRING" ELSE ""
      [] kinID = "DATE32" -> IF nID = "TIMESTAMP" THEN "TIMESTAMP" ELSE "STRING"
      [] kinID = "TIME64" -> IF nID \in {"DATE32", "TIMESTAMP"} THEN "STRING" ELSE ""
      [] OTHER -> ""

\* the type switch of merge: the type ID handed to upgradeType, "" for none
upgradeTarget(kinID, nID) ==
    CASE kinID \in {"NULL", "STRING"} -> ""
      [] kinID \in IntegerIDs -> IF nID \in FloatIDs THEN "FLOAT64" ELSE "STRING"
      [] kinID = "FLOAT16" -> IF nID \in {"FLOAT32", "FLOAT64"} THEN nID ELSE "STRING"
      [] kinID = "FLOAT32" -> IF nID = "FLOAT64" THEN "FLOAT64" ELSE "STRING"
      [] kinID = "FLOAT64" -> IF nID \in (IntegerIDs \cup {"FLOAT16", "FLOAT32"}) THEN "" ELSE "STRING"
      [] kinID = "TIMESTAMP" -> IF nID = "TIME64" THEN "STRING" ELSE ""
      [] kinID = "DATE32" -> IF nID = "TIMESTAMP" THEN "TIMESTAMP" ELSE "STRING"
      [] kinID = "TIME64" -> IF nID \in {"DATE32", "TIMESTAMP"} THEN "STRING" ELSE ""
      [] OTHER -> ""

\* the values of a Go map, whose range order is not fixed
MapValues(cm) == {e.v : e \in cm}

RECURSIVE merge(_, _, _)
RECURSIVE mergeRange(_, _, _)

\* merge that converts types whether or not u.typeConversion is set
mergeConverts(st, n, mergeAt) ==
    LET h == st.heap
        nPath == IF Len(mergeAt) > 0 THEN mergeAt \o h[n].path ELSE h[n].path
        nParentPath == IF Len(mergeAt) > 0 THEN mergeAt \o h[h[n].parent].path ELSE h[h[n].parent].path
        kin == getPath(h, old, nPath)
    IN IF st.panic THEN {st}
       ELSE IF kin = 0
       THEN IF h[n].root = h[n].parent
            THEN {graft(st, h[old].root, n)}
            ELSE LET b == getPath(h, old, nParentPath)
                 IN IF b <= 0 THEN {[st EXCEPT !.panic = TRUE]} ELSE {graft(st, b, n)}
       ELSE IF kin < 0 THEN {[st EXCEPT !.panic = TRUE]}
       ELSE LET t == IF h[kin].field # h[n].field
                        /\ h[kin].field.type.id # h[n].field.type.id
                     THEN upgradeTarget(h[kin].field.type.id, h[n].field.type.id)
                     ELSE ""
                st1 == IF t = "" THEN st ELSE upgradeType(st, kin, n, t)
            IN mergeRange({st1}, MapValues(h[n].childmap), mergeAt)

\* merge merges a new or changed field into the unified schema; the result
\* is the set of outcomes over the orders in which n.childmap is ranged
merge(st, n, mergeAt) ==
    LET h == st.heap
        nPath == IF Len(mergeAt) > 0 THEN mergeAt \o h[n].path ELSE h[n].path
        nParentPath == IF Len(mergeAt) > 0 THEN mergeAt \o h[h[n].parent].path ELSE h[h[n].parent].path
        kin == getPath(h, old, nPath)
    IN IF st.panic THEN {st}
       ELSE IF kin = 0
       THEN IF h[n].root = h[n].parent
            THEN {graft(st, h[old].root, n)}
            ELSE LET b == getPath(h, old, nParentPath)
                 IN IF b <= 0 THEN {[st EXCEPT !.panic = TRUE]} ELSE {graft(st, b, n)}
       ELSE IF kin < 0 THEN {[st EXCEPT !.panic = TRUE]}
       ELSE LET t == IF typeConversion /\ h[kin].field # h[n].field
                        /\ h[kin].field.type.id # h[n].field.type.id
                     THEN upgradeTarget(h[kin].field.type.id, h[n].field.type.id)
                     ELSE ""
                st1 == IF t = "" THEN st ELSE upgradeType(st, kin, n, t)
            IN mergeRange({st1}, MapValues(h[n].childmap), mergeAt)

mergeRange(sts, vs, mergeAt) ==
    IF vs = {} THEN sts
    ELSE UNION {mergeRange(UNION {merge(st, v, mergeAt) : st \in sts}, vs \ {v}, mergeAt) : v \in vs}

\* the loop of Unify and UnifyAtPath over the children of the new tree
RECURSIVE mergeChildren(_, _, _, _)
mergeChildren(sts, cs, i, mergeAt) ==
    IF i > Len(cs) THEN sts
    ELSE mergeChildren(UNION {merge(st, cs[i], mergeAt) : st \in sts}, cs, i + 1, mergeAt)

(***************************************************************************)
(* Inputs.  Records is the set of decoded records fed to the engine; an    *)
(* input is a record together with one order of ranging over its maps, or  *)
(* data that InputMap cannot decode.                                       *)
(***************************************************************************)
Records ==
    << <<Scalar("a", JInt)>>,
       <<Scalar("a", JFloat)>>,
       <<Scalar("a", StrPlain)>>,
       <<Object("a", <<Scalar("b", JInt)>>)>>,
       <<Object("a", <<Scalar("c", StrPlain)>>)>>,
       <<Scalar("c", StrPlain)>>,
       <<ListOfObject("a", <<Scalar("b", JInt)>>)>>,
       <<ListOfObject("a", <<Scalar("c", JFloat)>>)>>,
       <<Scalar("b", StrDate), Null("c")>>,
       <<Scalar("b", StrTimestamp), Scalar("c", JInt)>>,
       <<Scalar("b", StrTime)>> >>

RemoveAt(s, i) == SubSeq(s, 1, i - 1) \o SubSeq(s, i + 1, Len(s))

\* every order in which the maps of a record can be ranged over
RECURSIVE Orderings(_)
Orderings(m) ==
    IF Len(m) = 0 THEN {<<>>}
    ELSE UNION {{<<[m[i] EXCEPT !.items = it]>> \o rest :
                    it \in Orderings(m[i].items), rest \in Orderings(RemoveAt(m, i))} :
                i \in 1..Len(m)}

Input(rec, valid, m) == [rec |-> rec, valid |-> valid, m |-> m]

Inputs ==
    {Input(0, FALSE, <<>>)} \cup
    UNION {{Input(r, TRUE, m) : m \in Orderings(Records[r])} : r \in 1..Len(Records)}

\* the inputs given to UnifyAtPath
MountInputs == {a \in Inputs : a.rec \in {0, 1, 6}}

\* the mount paths given to UnifyAtPath
MountPaths ==
    { <<"$">>, <<"$", "a">>, <<"$", ".", "a">>, <<"$", "c">> }

\* InputMap without its error return: undecodable input is an empty map
InputMapLenient(a) == [err |-> "nil", m |-> a.m]

\* reader.InputMap decodes structured input to map[string]any
InputMap(a) ==
    IF a.valid THEN [err |-> "nil", m |-> a.m] ELSE [err |-> "invalid input", m |-> <<>>]

\* strings.TrimPrefix(s, "$")
TrimDollar(s) == IF Len(s) > 0 /\ s[1] = "$" THEN Tail(s) ELSE s

\* strings.Split(s, ".")
RECURSIVE SplitDots(_, _, _)
SplitDots(s, i, cur) ==
    IF i > Len(s) THEN <<cur>>
    ELSE IF s[i] = "." THEN <<cur>> \o SplitDots(s, i + 1, <<>>)
    ELSE SplitDots(s, i + 1, Append(cur, s[i]))

mergePathOf(mergeAt) ==
    IF ~(Len(mergeAt) = 0 \/ mergeAt = <<"$">>) THEN SplitDots(TrimDollar(mergeAt), 1, <<>>) ELSE <<>>

(***************************************************************************)
(* The path stores: ordered maps from dotted path to node.                 *)
(***************************************************************************)
OMapHas(om, key) == \E i \in 1..Len(om) : om[i].key = key

OMapSet(om, key, v) ==
    IF OMapHas(om, key)
    THEN [i \in 1..Len(om) |-> IF om[i].key = key THEN [key |-> key, v |-> v] ELSE om[i]]
    ELSE Append(om, [key |-> key, v |-> v])

OMapDelete(om, key) == SelectSeq(om, LAMBDA e : e.key # key)

RECURSIVE OMapSetAll(_, _, _)
OMapSetAll(om, es, i) ==
    IF i > Len(es) THEN om ELSE OMapSetAll(OMapSet(om, es[i].key, es[i].v), es, i + 1)

RECURSIVE OMapDeleteAll(_, _, _)
OMapDeleteAll(om, es, i) ==
    IF i > Len(es) THEN om ELSE OMapDeleteAll(OMapDelete(om, es[i].key), es, i + 1)

\* the nodes that path lookup reaches below f, each with its dotted path
RECURSIVE located(_, _, _)
RECURSIVE locatedFrom(_, _, _, _)
located(h, f, prefix) == locatedFrom(h, f, prefix, 1)

locatedFrom(h, f, prefix, i) ==
    IF i > Len(h[f].children) THEN <<>>
    ELSE LET c == h[f].children[i]
             here == IF MapHas(h[f].childmap, h[c].name) /\ MapGet(h[f].childmap, h[c].name) = c
                     THEN <<[key |-> dotPathOf(Append(prefix, h[c].name)), v |-> c]>>
                          \o located(h, c, Append(prefix, h[c].name))
                     ELSE <<>>
         IN here \o locatedFrom(h, f, prefix, i + 1)

\* known_paths holds every node of the cumulative tree that has a type
registerKnown(om, h, root) == OMapSetAll(om, located(h, root, <<>>), 1)

\* the walker gives the value a type: a struct needs a child that has one
RECURSIVE visible(_)
visible(e) ==
    CASE e.kind \in {"null", "emptylist"} -> FALSE
      [] e.kind = "struct" -> \E i \in 1..Len(e.items) : visible(e.items[i])
      [] OTHER -> TRUE

\* the values of a record the walker cannot type, each with its dotted path
RECURSIVE pending(_, _, _)
pending(m, prefix, i) ==
    IF i > Len(m) THEN <<>>
    ELSE LET e == m[i]
             p == Append(prefix, e.k)
             here == CASE e.kind = "null" -> <<[key |-> dotPathOf(p), v |-> "NULL"]>>
                       [] e.kind = "emptylist" -> <<[key |-> dotPathOf(p), v |-> "LIST"]>>
                       [] e.kind = "struct" ->
                            pending(e.items, p, 1) \o
                            (IF ~visible(e) THEN <<[key |-> dotPathOf(p), v |-> "STRUCT"]>> ELSE <<>>)
                       [] e.kind = "liststruct" -> pending(e.items, Append(p, e.k \o <<".", "elem">>), 1)
                       [] OTHER -> <<>>
         IN here \o pending(m, prefix, i + 1)

\* pending_paths holds the values not yet typed; a path leaves it when known
registerPending(om, m, known) ==
    OMapDeleteAll(OMapSetAll(om, pending(m, <<>>, 1), 1), known, 1)

(***************************************************************************)
(* Construction and options.                                               *)
(***************************************************************************)
\* the zero Bodkin
ZeroBodkin ==
    [maxCount |-> 0, typeConversion |-> FALSE, inferTimeUnits |-> FALSE,
     quotedValuesAreStrings |-> FALSE]

WithMaxCount(b, i) == [b EXCEPT !.maxCount = i]

WithTypeConversion(b) == [b EXCEPT !.typeConversion = TRUE]

WithInferTimeUnits(b) == [b EXCEPT !.inferTimeUnits = TRUE]

WithQuotedValuesAreStrings(b) == [b EXCEPT !.quotedValuesAreStrings = TRUE]

\* the io.Reader of WithIOReader: the datums still to be read, each ended by
\* the delimiter, the last one only when trailing holds
Reader(present, data, trailing) == [present |-> present, data |-> data, trailing |-> trailing]

\* no WithIOReader option: u.rr is nil
NoReader == Reader(FALSE, <<>>, FALSE)

WithIOReader(data, trailing) == Reader(TRUE, data, trailing)

\* the option lists given to NewBodkin; cap 0 stands for no WithMaxCount
OptionLists ==
    { [cap |-> 1, conv |-> TRUE, infer |-> TRUE, quoted |-> FALSE],
      [cap |-> 0, conv |-> FALSE, infer |-> TRUE, quoted |-> FALSE] }

applyOptions(o) ==
    LET b1 == IF o.cap # 0 THEN WithMaxCount(ZeroBodkin, o.cap) ELSE ZeroBodkin
        b2 == IF o.conv THEN WithTypeConversion(b1) ELSE b1
        b3 == IF o.infer THEN WithInferTimeUnits(b2) ELSE b2
    IN IF o.quoted THEN WithQuotedValuesAreStrings(b3) ELSE b3

\* newBodkin applies the options and then sets the fields it initialises
newBodkin(o) == [applyOptions(o) EXCEPT !.maxCount = MaxInt]

Call(op, rec, mount, res) == [op |-> op, rec |-> rec, mount |-> mount, res |-> res]

\* the state NewBodkin(opts...) returns, r being the reader of WithIOReader
constructed(o, r) ==
        LET b == newBodkin(o)
        IN /\ heap = <<>>
           /\ original = 0
           /\ old = 0
           /\ new = 0
           /\ knownFields = <<>>
           /\ untypedFields = <<>>
           /\ unificationCount = 0
           /\ maxCount = b.maxCount
           /\ typeConversion = b.typeConversion
           /\ inferTimeUnits = b.inferTimeUnits
           /\ quotedValuesAreStrings = b.quotedValuesAreStrings
           /\ err = "nil"
           /\ changes = <<>>
           /\ rr = r
           /\ scan = "idle"
           /\ datum = Input(0, FALSE, <<>>)
           /\ cfgMaxCount = o.cap
           /\ calls = 0
           /\ last = Call("NewBodkin", 0, <<>>, "nil")
           /\ repeated = FALSE
           /\ capReset = FALSE

\* no DataReader has been made
noDataReader ==
    /\ dr = [made |-> FALSE]
    /\ chans = <<>>
    /\ procs = <<>>
    /\ caller = [pc |-> "idle"]

Init == noDataReader /\ \E o \in OptionLists : constructed(o, NoReader)

(***************************************************************************)
(* The operations of the engine.                                           *)
(***************************************************************************)
options == <<typeConversion, inferTimeUnits, quotedValuesAreStrings, cfgMaxCount>>

\* the record of the calls made: their number, whether the last two calls
\* were accepted Unify calls of the same record, whether the cap was reset
Noted ==
    /\ repeated' = (/\ last.op = "Unify" /\ last.res = "nil"
                    /\ last'.op = "Unify" /\ last'.res = "nil"
                    /\ last'.rec = last.rec)
    /\ capReset' = (capReset \/ last'.op = "ResetMaxCount")

Called == calls' = calls + 1 /\ Noted

\* the reader and the position of UnifyScan in its loop
reader == <<rr, scan, datum>>

trees == <<heap, original, old, new, knownFields, untypedFields, changes>>

\* the merge loop without the u.unificationCount++ that follows it
MergedUncounted(h, f, mergeAt, a, res) ==
    \E st \in mergeChildren({[heap |-> h, changes |-> changes, panic |-> FALSE]},
                            h[f].children, 1, mergeAt) :
        /\ heap' = st.heap
        /\ changes' = st.changes
        /\ new' = f
        /\ knownFields' = registerKnown(knownFields, st.heap, old)
        /\ untypedFields' = registerPending(untypedFields, a.m, knownFields')
        /\ unificationCount' = unificationCount
        /\ res = IF st.panic THEN "panic" ELSE "nil"

\* the merge of the tree f of a record into the cumulative tree
Merged(h, f, mergeAt, a, res) ==
    \E st \in mergeChildren({[heap |-> h, changes |-> changes, panic |-> FALSE]},
                            h[f].children, 1, mergeAt) :
        /\ heap' = st.heap
        /\ changes' = st.changes
        /\ new' = f
        /\ knownFields' = registerKnown(knownFields, st.heap, old)
        /\ untypedFields' = registerPending(untypedFields, a.m, knownFields')
        /\ unificationCount' = IF st.panic THEN unificationCount ELSE unificationCount + 1
        /\ res = IF st.panic THEN "panic" ELSE "nil"

\* Unify merges structured input's column definition with the previous schema
unify(a, mg) ==
    /\ UNCHANGED <<options, maxCount>>
    /\ IF unificationCount > maxCount
       THEN /\ last' = Call("Unify", a.rec, <<>>, "maxcount exceeded")
            /\ UNCHANGED <<trees, unificationCount, err>>
       ELSE IF InputMap(a).err # "nil"
       THEN /\ err' = "invalid input"
            /\ last' = Call("Unify", a.rec, <<>>, "invalid input")
            /\ UNCHANGED <<trees, unificationCount>>
       ELSE IF old = 0
       THEN LET hg == mapToArrow(newFieldPos(heap), Len(heap) + 1, mg)
                f == Len(hg) + 1
                hf == mapToArrow(newFieldPos(hg), f, InputMap(a).m)
            IN /\ heap' = hf
               /\ original' = Len(heap) + 1
               /\ old' = f
               /\ knownFields' = registerKnown(knownFields, hf, f)
               /\ untypedFields' = registerPending(registerPending(untypedFields, mg, <<>>),
                                                   InputMap(a).m, knownFields')
               /\ unificationCount' = unificationCount + 1
               /\ last' = Call("Unify", a.rec, <<>>, "nil")
               /\ UNCHANGED <<new, changes, err>>
       ELSE LET f == Len(heap) + 1
                hf == mapToArrow(newFieldPos(heap), f, InputMap(a).m)
            IN \E res \in {"nil", "panic"} :
                  /\ Merged(hf, f, <<>>, a, res)
                  /\ last' = Call("Unify", a.rec, <<>>, res)
                  /\ UNCHANGED <<original, old, err>>

\* a call of Unify by the user of the engine
Unify(a, mg) ==
    /\ UNCHANGED dataReader
    /\ calls < MaxCalls /\ scan = "idle"
    /\ unify(a, mg)
    /\ UNCHANGED reader
    /\ Called

\* the lookup with its result ignored: every mount path passes
pathKnownAlways(mergeAt) == mergeAt = mergeAt

\* u.knownFields.Get(mergeAt)
pathKnown(mergeAt) == OMapHas(knownFields, mergeAt)

\* UnifyAtPath merges structured input using a specified path as the root
UnifyAtPath(a, mergeAt) ==
    /\ UNCHANGED dataReader
    /\ calls < MaxCalls /\ scan = "idle"
    /\ UNCHANGED <<options, maxCount, reader>>
    /\ IF old = 0
       THEN /\ last' = Call("UnifyAtPath", a.rec, mergeAt, "bodkin not initialised")
            /\ UNCHANGED <<trees, unificationCount, err>>
       ELSE IF unificationCount > maxCount
       THEN /\ last' = Call("UnifyAtPath", a.rec, mergeAt, "maxcount exceeded")
            /\ UNCHANGED <<trees, unificationCount, err>>
       ELSE IF ~pathKnown(mergeAt)
       THEN /\ last' = Call("UnifyAtPath", a.rec, mergeAt, "path not found")
            /\ UNCHANGED <<trees, unificationCount, err>>
       ELSE IF InputMap(a).err # "nil"
       THEN /\ err' = "invalid input"
            /\ last' = Call("UnifyAtPath", a.rec, mergeAt, "invalid input")
            /\ UNCHANGED <<trees, unificationCount>>
       ELSE LET f == Len(heap) + 1
                hf == mapToArrow(newFieldPos(heap), f, InputMap(a).m)
            IN \E res \in {"nil", "panic"} :
                  /\ Merged(hf, f, mergePathOf(mergeAt), a, res)
                  /\ last' = Call("UnifyAtPath", a.rec, mergeAt, res)
                  /\ UNCHANGED <<original, old, err>>
    /\ Called

\* ResetCount that also drops the change log
ResetCountAndChanges ==
    /\ UNCHANGED dataReader
    /\ calls < MaxCalls /\ scan = "idle"
    /\ unificationCount' = 0
    /\ changes' = <<>>
    /\ last' = Call("ResetCount", 0, <<>>, "nil")
    /\ Called
    /\ UNCHANGED <<heap, original, old, new, knownFields, untypedFields, options,
                   maxCount, err, reader>>

\* ResetCount resets the count of datum evaluated for schema to date
ResetCount ==
    /\ UNCHANGED dataReader
    /\ calls < MaxCalls /\ scan = "idle"
    /\ unificationCount' = 0
    /\ last' = Call("ResetCount", 0, <<>>, "nil")
    /\ Called
    /\ UNCHANGED <<trees, options, maxCount, err, reader>>

\* ResetMaxCount resets the maximum number of datum to be evaluated
ResetMaxCount ==
    /\ UNCHANGED dataReader
    /\ calls < MaxCalls /\ scan = "idle"
    /\ maxCount' = MaxInt
    /\ last' = Call("ResetMaxCount", 0, <<>>, "nil")
    /\ Called
    /\ UNCHANGED <<trees, options, unificationCount, err, reader>>

\* UnifyScan reads from the io.Reader and merges each datum; this is the
\* call up to the loop
UnifyScan ==
    /\ UNCHANGED dataReader
    /\ calls < MaxCalls /\ scan = "idle"
    /\ IF ~rr.present
       THEN last' = Call("UnifyScan", 0, <<>>, "no io.reader provided") /\ scan' = scan
       ELSE IF unificationCount > maxCount
       THEN last' = Call("UnifyScan", 0, <<>>, "maxcount exceeded") /\ scan' = scan
       ELSE last' = Call("UnifyScan", 0, <<>>, "scanning") /\ scan' = "read"
    /\ Called
    /\ UNCHANGED <<trees, options, maxCount, unificationCount, err, rr, datum>>

\* u.br.ReadBytes(u.delim): the next datum, with io.EOF when the data ends
\* before a delimiter; at io.EOF the loop sets u.err to nil
ScanRead ==
    /\ UNCHANGED dataReader
    /\ scan = "read"
    /\ IF Len(rr.data) = 0
       THEN datum' = Input(0, FALSE, <<>>) /\ rr' = rr /\ err' = "nil" /\ scan' = "final"
       ELSE IF Len(rr.data) = 1 /\ ~rr.trailing
       THEN /\ datum' = rr.data[1] /\ rr' = [rr EXCEPT !.data = <<>>]
            /\ err' = "nil" /\ scan' = "final"
       ELSE /\ datum' = rr.data[1] /\ rr' = [rr EXCEPT !.data = Tail(@)]
            /\ err' = err /\ scan' = "datum"
    /\ UNCHANGED <<trees, options, maxCount, unificationCount, last, calls, repeated, capReset>>

\* the body of the loop: reader.InputMap(datumBytes), then u.Unify(m), whose
\* return value is dropped; the loop continues, or breaks at io.EOF
ScanDatum ==
    /\ UNCHANGED dataReader
    /\ scan \in {"datum", "final"}
    /\ scan' = IF scan = "datum" THEN "read" ELSE "return"
    /\ IF InputMap(datum).err # "nil"
       THEN /\ err' = "invalid input"
            /\ UNCHANGED <<trees, options, maxCount, unificationCount, last, repeated, capReset>>
       ELSE unify(datum, datum.m) /\ Noted
    /\ UNCHANGED <<rr, datum, calls>>

\* return u.err
ScanReturn ==
    /\ UNCHANGED dataReader
    /\ scan = "return"
    /\ scan' = "idle"
    /\ last' = Call("UnifyScan", 0, <<>>, err)
    /\ Noted
    /\ UNCHANGED <<trees, options, maxCount, unificationCount, err, rr, datum, calls>>

Next ==
    \/ \E a \in Inputs : \E mg \in (IF a.valid THEN Orderings(Records[a.rec]) ELSE {<<>>}) : Unify(a, mg)
    \/ \E a \in MountInputs, mergeAt \in MountPaths : UnifyAtPath(a, mergeAt)
    \/ ResetCount
    \/ ResetMaxCount

Spec == Init /\ [][Next]_vars

(***************************************************************************)
(* The engine with an io.Reader: NewBodkin(WithIOReader(r, delim), ...)    *)
(* followed by calls of UnifyScan, Unify, UnifyAtPath and ResetCount.      *)
(***************************************************************************)
\* the data of the reader, as datums and whether the last one is delimited
Streams ==
    { WithIOReader(<<>>, FALSE),
      WithIOReader(<<Input(0, FALSE, <<>>)>>, FALSE),
      WithIOReader(<<Input(1, TRUE, Records[1]), Input(6, TRUE, Records[6])>>, FALSE),
      WithIOReader(<<Input(1, TRUE, Records[1])>>, TRUE),
      WithIOReader(<<Input(0, FALSE, <<>>), Input(1, TRUE, Records[1])>>, FALSE),
      WithIOReader(<<Input(4, TRUE, Records[4]), Input(0, FALSE, <<>>)>>, FALSE),
      NoReader }

ScanOptions == [cap |-> 0, conv |-> TRUE, infer |-> TRUE, quoted |-> FALSE]

\* the inputs given to Unify and UnifyAtPath beside the reader
ScanInputs == {a \in Inputs : a.rec \in {0, 3, 6}}

ScanMounts == { <<"$", "a">>, <<"$", "c">> }

InitScan == noDataReader /\ \E r \in Streams : constructed(ScanOptions, r)

NextScan ==
    \/ UnifyScan
    \/ ScanRead
    \/ ScanDatum
    \/ ScanReturn
    \/ \E a \in ScanInputs : Unify(a, a.m)
    \/ \E a \in ScanInputs, mergeAt \in ScanMounts : UnifyAtPath(a, mergeAt)
    \/ ResetCount

SpecScan == InitScan /\ [][NextScan]_vars

\* UnifyScan is a loop of one goroutine over a reader that answers every
\* ReadBytes: a call that has started reads on, handles the datum it has
\* read, and returns
SpecScanFair ==
    /\ SpecScan
    /\ WF_vars(ScanRead) /\ WF_vars(ScanReturn)
    \* weak fairness of ScanDatum, which is enabled when scan is "datum" or
    \* "final"
    /\ []<>(scan \notin {"datum", "final"}) \/ []<><<ScanDatum>>_vars

(***************************************************************************)
(* The engine fed with records that hold nulls and empty lists.            *)
(***************************************************************************)
PendingRecords ==
    << <<Object("a", <<Null("b")>>)>>,
       <<EmptyList("c")>>,
       <<ListOfScalar("c", JInt)>> >>

PendingInputs ==
    {a \in Inputs : a.rec \in {4, 5, 6, 9}} \cup
    UNION {{Input(Len(Records) + r, TRUE, m) : m \in Orderings(PendingRecords[r])} :
              r \in 1..Len(PendingRecords)}

NextPending ==
    \/ \E a \in PendingInputs : Unify(a, a.m)
    \/ ResetCount

SpecPending == Init /\ [][NextPending]_vars

(***************************************************************************)
(* The engine fed with records whose leaves change type below structs and  *)
(* lists.                                                                  *)
(***************************************************************************)
NestedRecords ==
    << <<Object("a", <<Scalar("b", StrPlain)>>)>>,
       <<ListOfObject("a", <<Scalar("b", StrPlain)>>)>>,
       <<Object("a", <<Object("d", <<Scalar("b", JInt)>>)>>)>>,
       <<Object("a", <<Object("d", <<Scalar("b", StrPlain)>>)>>)>>,
       <<Scalar("b", StrDate)>>,
       <<Scalar("b", JFloat)>> >>

NestedInputs ==
    {a \in Inputs : a.rec \in {4, 7}} \cup
    UNION {{Input(Len(Records) + Len(PendingRecords) + r, TRUE, m) :
               m \in Orderings(NestedRecords[r])} : r \in 1..Len(NestedRecords)}

NextNested ==
    \/ \E a \in NestedInputs : Unify(a, a.m)
    \/ ResetCount

SpecNested == Init /\ [][NextNested]_vars

(***************************************************************************)
(* The engine fed with one column seen with each scalar type in turn, and  *)
(* with mount paths that name the root.                                    *)
(***************************************************************************)
TypeRecords ==
    << <<Scalar("a", GoInt8)>>,
       <<Scalar("a", GoBool)>>,
       <<Scalar("a", StrDate)>>,
       <<Scalar("a", StrTime)>>,
       <<Scalar("a", StrTimestamp)>> >>

TypeInputs ==
    {a \in Inputs : a.rec \in {1, 2, 3}} \cup
    UNION {{Input(Len(Records) + Len(PendingRecords) + Len(NestedRecords) + r, TRUE, m) :
               m \in Orderings(TypeRecords[r])} : r \in 1..Len(TypeRecords)}

\* the empty string and "$"
RootMounts == { <<>>, <<"$">> }

NextTypes ==
    \/ \E a \in TypeInputs : Unify(a, a.m)
    \/ \E a \in {x \in TypeInputs : x.rec = 1}, mergeAt \in RootMounts : UnifyAtPath(a, mergeAt)

SpecTypes == Init /\ [][NextTypes]_vars

(***************************************************************************)
(* The engine fed with records that bring several new fields at once, at   *)
(* the root and below a struct.                                            *)
(***************************************************************************)
SiblingRecords ==
    << <<Object("a", <<Scalar("c", StrPlain), Scalar("e", JFloat)>>)>>,
       <<Object("a", <<Scalar("e", JFloat), Scalar("c", StrPlain)>>)>>,
       <<Scalar("c", StrPlain), Scalar("e", JFloat)>> >>

SiblingInputs ==
    {a \in Inputs : a.rec \in {1, 4, 5}} \cup
    UNION {{Input(Len(Records) + Len(PendingRecords) + Len(NestedRecords) + Len(TypeRecords) + r, TRUE, m) :
               m \in Orderings(SiblingRecords[r])} : r \in 1..Len(SiblingRecords)}

NextSiblings ==
    \/ \E a \in SiblingInputs : Unify(a, a.m)
    \/ ResetCount

SpecSiblings == Init /\ [][NextSiblings]_vars

(***************************************************************************)
(* The engine under each setting of WithInferTimeUnits and                 *)
(* WithQuotedValuesAreStrings, fed with one column of string values: plain,*)
(* a date, a time, a timestamp, "42" (which integerMatcher and floatMatcher*)
(* both match), "4.2" and "true".                                          *)
(***************************************************************************)
ClassifyRecords ==
    << <<Scalar("a", StrPlain)>>,
       <<Scalar("a", StrDate)>>,
       <<Scalar("a", StrTime)>>,
       <<Scalar("a", StrTimestamp)>>,
       <<Scalar("a", StrQuotedInt)>>,
       <<Scalar("a", Leaf("string", {"float"}))>>,
       <<Scalar("a", Leaf("string", {"bool"}))>> >>

ClassifyInputs ==
    {Input(Len(Records) + Len(PendingRecords) + Len(NestedRecords) + Len(TypeRecords)
              + Len(SiblingRecords) + r, TRUE, ClassifyRecords[r]) : r \in 1..Len(ClassifyRecords)}

NextClassify == \E a \in ClassifyInputs : Unify(a, a.m)

InitClassify ==
    /\ noDataReader
    /\ \E i, q \in BOOLEAN :
          constructed([cap |-> 0, conv |-> TRUE, infer |-> i, quoted |-> q], NoReader)

SpecClassify == InitClassify /\ [][NextClassify]_vars

(***************************************************************************)
(* The DataReader of package reader: NewReader, Read, Next, Reset, Cancel  *)
(* and its two goroutines, decode2Chan and recordFactory.                  *)
(***************************************************************************)
\* number of calls of Read, Next, Reset and Cancel explored
MaxOps == 2

\* the engine, which the DataReader leaves alone
bodkin == <<trees, options, maxCount, unificationCount, err, reader, calls, last,
            repeated, capReset>>

\* a datum: whether InputMap decodes it and whether loadDatum can append it
Row(id, decodes, loads) == [id |-> id, decodes |-> decodes, loads |-> loads]

NoRow == Row(0, FALSE, FALSE)

\* make(chan T, n)
makeChan(n) == [buf |-> <<>>, closed |-> FALSE, cap |-> n]

\* a goroutine started by a go statement
goroutine(fn) ==
    [fn |-> fn, pc |-> "start", anyChan |-> 0, recChan |-> 0, bldDone |-> 0,
     recChunk |-> 0, b |-> FALSE, data |-> NoRow]

\* a goroutine that has returned
exited(g) == [goroutine(g.fn) EXCEPT !.pc = "exited"]

\* the options of NewReader: WithIOReader, WithChunk, WithInputBufferSize,
\* WithRecordBufferSize
ReaderOption(r, chunk, inputBufferSize, recordBufferSize) ==
    [rr |-> r, chunk |-> chunk, inputBufferSize |-> inputBufferSize,
     recordBufferSize |-> recordBufferSize]

\* NewReader up to its last statement: the channels are made, the context
\* is live, decode2Chan has been started after its wg.Add(1) if there is an
\* io.Reader, recordFactory has been started and its wg.Add(1) is yet to run
NewReader(o) ==
    /\ dr = [made |-> TRUE, rr |-> o.rr, br |-> <<>>, chunk |-> o.chunk,
             inputBufferSize |-> o.inputBufferSize,
             recordBufferSize |-> o.recordBufferSize,
             anyChan |-> 1, recChan |-> 2, bldDone |-> 1,
             inputLock |-> 0, factoryLock |-> 0,
             wg |-> IF o.rr.present THEN 1 ELSE 0,
             inputCount |-> 0, err |-> "nil", cur |-> <<>>, cancelled |-> FALSE,
             bld |-> <<>>, crashed |-> FALSE, ops |-> 0,
             accepted |-> <<>>, built |-> <<>>]
    /\ chans = <<makeChan(o.inputBufferSize), makeChan(o.recordBufferSize)>>
    /\ procs = IF o.rr.present
               THEN <<goroutine("decode2Chan"), goroutine("recordFactory")>>
               ELSE <<goroutine("recordFactory")>>
    /\ caller = [pc |-> "NewReader", op |-> "NewReader", ret |-> "nil", data |-> NoRow]

\* a step of the program, which a panic that nothing recovers ends
running == dr.made /\ ~dr.crashed

setProc(p, g) == [procs EXCEPT ![p] = g]

\* r.wg.Add(1), the last statement of NewReader
NewReaderAdd ==
    /\ running /\ caller.pc = "NewReader"
    /\ dr' = [dr EXCEPT !.wg = @ + 1]
    /\ caller' = [caller EXCEPT !.pc = "idle"]
    /\ UNCHANGED <<chans, procs, bodkin>>

\* decode2Chan: the guard on inputLock and defer close(r.anyChan), whose
\* argument is evaluated here
DecodeStart(p) ==
    /\ running /\ procs[p].fn = "decode2Chan" /\ procs[p].pc = "start"
    /\ IF dr.inputLock = 0
       THEN /\ dr' = [dr EXCEPT !.inputLock = 1]
            /\ procs' = setProc(p, [procs[p] EXCEPT !.pc = "read", !.anyChan = dr.anyChan,
                                                    !.b = TRUE])
       ELSE /\ dr' = dr
            /\ procs' = setProc(p, exited(procs[p]))
    /\ UNCHANGED <<chans, caller, bodkin>>

\* r.br.ReadBytes(r.delim) and InputMap: the bufio.Reader takes all the data
\* of the io.Reader into its buffer; at io.EOF r.err is set to nil and the
\* bytes after the last delimiter are dropped
DecodeRead(p) ==
    /\ running /\ procs[p].fn = "decode2Chan" /\ procs[p].pc = "read"
    /\ LET buffered == dr.br \o dr.rr.data
       IN IF buffered = <<>>
          THEN /\ dr' = [dr EXCEPT !.err = "nil"]
               /\ procs' = setProc(p, [procs[p] EXCEPT !.pc = "exit"])
          ELSE /\ dr' = [dr EXCEPT !.br = Tail(buffered), !.rr.data = <<>>,
                                   !.err = IF Head(buffered).decodes THEN @ ELSE "invalid input"]
               /\ procs' = setProc(p, IF Head(buffered).decodes
                                      THEN [procs[p] EXCEPT !.pc = "send", !.data = Head(buffered)]
                                      ELSE procs[p])
    /\ UNCHANGED <<chans, caller, bodkin>>

\* r.anyChan <- datum and r.inputCount++; a send on a closed channel panics
\* and the deferred recover joins the panic into r.err
DecodeSend(p) ==
    /\ running /\ procs[p].fn = "decode2Chan" /\ procs[p].pc = "send"
    /\ IF chans[dr.anyChan].closed
       THEN /\ dr' = [dr EXCEPT !.err = "panic"]
            /\ procs' = setProc(p, [procs[p] EXCEPT !.pc = "exit", !.data = NoRow])
            /\ chans' = chans
       ELSE /\ Len(chans[dr.anyChan].buf) < chans[dr.anyChan].cap
            /\ chans' = [chans EXCEPT ![dr.anyChan].buf = Append(@, procs[p].data)]
            /\ dr' = [dr EXCEPT !.inputCount = @ + 1, !.accepted = Append(@, procs[p].data.id)]
            /\ procs' = setProc(p, [procs[p] EXCEPT !.pc = "signal", !.data = NoRow])
    /\ UNCHANGED <<caller, bodkin>>

\* r.wg.Done() after the first datum, which panics on a negative counter,
\* and the select on r.readerCtx.Done()
DecodeSignal(p) ==
    /\ running /\ procs[p].fn = "decode2Chan" /\ procs[p].pc = "signal"
    /\ LET wg == IF procs[p].b THEN dr.wg - 1 ELSE dr.wg
       IN /\ dr' = [dr EXCEPT !.wg = wg, !.err = IF wg < 0 THEN "panic" ELSE @]
          /\ procs' = setProc(p, [procs[p] EXCEPT !.b = FALSE,
                                     !.pc = IF wg < 0 \/ dr.cancelled THEN "exit" ELSE "read"])
    /\ UNCHANGED <<chans, caller, bodkin>>

\* the deferred calls: close of the channel taken at the defer statement,
\* recover, r.inputLock.Store(0)
DecodeExit(p) ==
    /\ running /\ procs[p].fn = "decode2Chan" /\ procs[p].pc = "exit"
    /\ chans' = [chans EXCEPT ![procs[p].anyChan].closed = TRUE]
    /\ dr' = [dr EXCEPT !.inputLock = 0,
                        !.err = IF chans[procs[p].anyChan].closed THEN "panic" ELSE @]
    /\ procs' = setProc(p, exited(procs[p]))
    /\ UNCHANGED <<caller, bodkin>>

decode2Chan(p) ==
    \/ DecodeStart(p)
    \/ DecodeRead(p)
    \/ DecodeSend(p)
    \/ DecodeSignal(p)
    \/ DecodeExit(p)

\* recordFactory: the guard on factoryLock and defer close(r.recChan),
\* whose argument is evaluated here
FactoryStart(p) ==
    /\ running /\ procs[p].fn = "recordFactory" /\ procs[p].pc = "start"
    /\ IF dr.factoryLock = 0
       THEN /\ dr' = [dr EXCEPT !.factoryLock = 1]
            /\ procs' = setProc(p, [procs[p] EXCEPT !.pc = "signal", !.recChan = dr.recChan])
       ELSE /\ dr' = dr
            /\ procs' = setProc(p, exited(procs[p]))
    /\ UNCHANGED <<chans, caller, bodkin>>

\* r.wg.Done(); a negative counter panics and nothing recovers
FactorySignal(p) ==
    /\ running /\ procs[p].fn = "recordFactory" /\ procs[p].pc = "signal"
    /\ dr' = [dr EXCEPT !.wg = @ - 1, !.crashed = dr.wg - 1 < 0]
    /\ procs' = setProc(p, [procs[p] EXCEPT !.pc = "range"])
    /\ UNCHANGED <<chans, caller, bodkin>>

\* for data := range r.anyChan: the channel is taken once
FactoryRange(p) ==
    /\ running /\ procs[p].fn = "recordFactory" /\ procs[p].pc = "range"
    /\ procs' = setProc(p, [procs[p] EXCEPT !.pc = "recv", !.anyChan = dr.anyChan])
    /\ UNCHANGED <<dr, chans, caller, bodkin>>

\* the receive of the range loop, which ends when the channel is closed
\* and empty
FactoryRecv(p) ==
    /\ running /\ procs[p].fn = "recordFactory" /\ procs[p].pc = "recv"
    /\ LET c == chans[procs[p].anyChan]
       IN IF c.buf # <<>>
          THEN /\ chans' = [chans EXCEPT ![procs[p].anyChan].buf = Tail(@)]
               /\ procs' = setProc(p, [procs[p] EXCEPT !.pc = "load", !.data = Head(c.buf)])
          ELSE /\ c.closed
               /\ chans' = chans
               /\ procs' = setProc(p, [procs[p] EXCEPT !.pc = "flush"])
    /\ UNCHANGED <<dr, caller, bodkin>>

\* the body of the loop up to the send of a record: r.ldr.loadDatum(data),
\* the count of the chunk, and for r.chunk < 1 the select on the context
\* (nothing sends on r.recReq)
FactoryLoad(p) ==
    /\ running /\ procs[p].fn = "recordFactory" /\ procs[p].pc = "load"
    /\ IF ~procs[p].data.loads
       THEN /\ dr' = [dr EXCEPT !.err = "load error"]
            /\ procs' = setProc(p, [procs[p] EXCEPT !.pc = "exit", !.data = NoRow])
       ELSE /\ dr' = [dr EXCEPT !.bld = Append(@, procs[p].data.id)]
            /\ procs' = setProc(p,
                 IF dr.chunk < 1
                 THEN IF dr.cancelled
                      THEN [procs[p] EXCEPT !.pc = "bldDone", !.bldDone = dr.bldDone, !.data = NoRow]
                      ELSE [procs[p] EXCEPT !.pc = "recv", !.data = NoRow]
                 ELSE [procs[p] EXCEPT !.recChunk = @ + 1, !.data = NoRow,
                                       !.pc = IF procs[p].recChunk + 1 >= dr.chunk
                                              THEN "emit" ELSE "recv"])
    /\ UNCHANGED <<chans, caller, bodkin>>

\* r.recChan <- r.bld.NewRecord(): in the loop when the chunk is full, and
\* after the loop for what is left (for r.chunk < 1 always); a send on a
\* closed channel panics and nothing recovers
FactoryEmit(p) ==
    /\ running /\ procs[p].fn = "recordFactory" /\ procs[p].pc \in {"emit", "flush"}
    /\ IF procs[p].pc = "flush" /\ dr.chunk >= 1 /\ procs[p].recChunk = 0
       THEN /\ procs' = setProc(p, [procs[p] EXCEPT !.pc = "bldDone", !.bldDone = dr.bldDone])
            /\ UNCHANGED <<dr, chans>>
       ELSE IF chans[dr.recChan].closed
       THEN /\ dr' = [dr EXCEPT !.crashed = TRUE]
            /\ UNCHANGED <<chans, procs>>
       ELSE /\ Len(chans[dr.recChan].buf) < chans[dr.recChan].cap
            /\ chans' = [chans EXCEPT ![dr.recChan].buf = Append(@, dr.bld)]
            /\ dr' = [dr EXCEPT !.bld = <<>>, !.built = Append(@, dr.bld)]
            /\ procs' = setProc(p,
                 IF procs[p].pc = "emit"
                 THEN [procs[p] EXCEPT !.pc = "recv", !.recChunk = 0]
                 ELSE [procs[p] EXCEPT !.pc = "bldDone", !.bldDone = dr.bldDone, !.recChunk = 0])
    /\ UNCHANGED <<caller, bodkin>>

\* the deferred calls: close of the channel taken at the defer statement
\* and r.factoryLock.Store(0)
FactoryExit(p) ==
    /\ running /\ procs[p].fn = "recordFactory" /\ procs[p].pc = "exit"
    /\ chans' = [chans EXCEPT ![procs[p].recChan].closed = TRUE]
    /\ dr' = [dr EXCEPT !.factoryLock = 0, !.crashed = chans[procs[p].recChan].closed]
    /\ procs' = setProc(p, exited(procs[p]))
    /\ UNCHANGED <<caller, bodkin>>

recordFactory(p) ==
    \/ FactoryStart(p)
    \/ FactorySignal(p)
    \/ FactoryRange(p)
    \/ FactoryRecv(p)
    \/ FactoryLoad(p)
    \/ FactoryEmit(p)
    \/ FactoryExit(p)

\* the rows given to Read
ManualRows == {Row(1, TRUE, TRUE), Row(2, TRUE, TRUE), Row(0, FALSE, FALSE)}

\* Read loads one datum: a no-op with an io.Reader; InputMap, then the send
\* on r.anyChan
Read(a) ==
    /\ running /\ caller.pc = "idle" /\ dr.ops < MaxOps
    /\ IF dr.rr.present
       THEN /\ dr' = [dr EXCEPT !.ops = @ + 1]
            /\ caller' = [caller EXCEPT !.op = "Read", !.ret = "nil"]
       ELSE IF ~a.decodes
       THEN /\ dr' = [dr EXCEPT !.ops = @ + 1, !.err = "invalid input"]
            /\ caller' = [caller EXCEPT !.op = "Read", !.ret = "invalid input"]
       ELSE /\ dr' = [dr EXCEPT !.ops = @ + 1]
            /\ caller' = [caller EXCEPT !.op = "Read", !.pc = "Read", !.data = a]
    /\ UNCHANGED <<chans, procs, bodkin>>

\* r.anyChan <- m and r.inputCount++; the panic of a send on a closed
\* channel is recovered by Read
ReadSend ==
    /\ running /\ caller.pc = "Read"
    /\ IF chans[dr.anyChan].closed
       THEN /\ dr' = [dr EXCEPT !.err = "panic"]
            /\ chans' = chans
       ELSE /\ Len(chans[dr.anyChan].buf) < chans[dr.anyChan].cap
            /\ chans' = [chans EXCEPT ![dr.anyChan].buf = Append(@, caller.data)]
            /\ dr' = [dr EXCEPT !.inputCount = @ + 1, !.accepted = Append(@, caller.data.id)]
    /\ caller' = [caller EXCEPT !.pc = "idle", !.ret = "nil", !.data = NoRow]
    /\ UNCHANGED <<procs, bodkin>>

\* Next, up to r.wg.Wait(): the current record is released
NextCall ==
    /\ running /\ caller.pc = "idle" /\ dr.ops < MaxOps
    /\ dr' = [dr EXCEPT !.ops = @ + 1, !.cur = <<>>]
    /\ caller' = [caller EXCEPT !.op = "Next", !.pc = "Wait", !.ret = "nil"]
    /\ UNCHANGED <<chans, procs, bodkin>>

\* r.wg.Wait() returns when the counter is zero
NextWait ==
    /\ running /\ caller.pc = "Wait"
    /\ dr.wg = 0
    /\ caller' = [caller EXCEPT !.pc = "select"]
    /\ UNCHANGED <<dr, chans, procs, bodkin>>

\* what Next returns with r.cur
nextReturns(cur) == IF dr.err # "nil" THEN "false" ELSE IF cur # <<>> THEN "true" ELSE "false"

\* the select of Next over r.recChan, r.bldDone and r.readerCtx.Done(), one
\* of the cases that are ready, and the return
NextSelect ==
    /\ running /\ caller.pc = "select"
    /\ \/ /\ chans[dr.recChan].buf # <<>>
          /\ chans' = [chans EXCEPT ![dr.recChan].buf = Tail(@)]
          /\ dr' = [dr EXCEPT !.cur = <<Head(chans[dr.recChan].buf)>>]
          /\ caller' = [caller EXCEPT !.pc = "idle",
                                      !.ret = nextReturns(<<Head(chans[dr.recChan].buf)>>)]
          /\ procs' = procs
       \/ /\ chans[dr.recChan].buf = <<>> /\ chans[dr.recChan].closed
          /\ caller' = [caller EXCEPT !.pc = "idle", !.ret = "false"]
          /\ UNCHANGED <<dr, chans, procs>>
       \/ \E p \in 1..Len(procs) :
             /\ procs[p].pc = "bldDone" /\ procs[p].bldDone = dr.bldDone
             /\ procs' = setProc(p, [procs[p] EXCEPT !.pc = "exit", !.bldDone = 0])
             /\ IF chans[dr.recChan].buf # <<>>
                THEN /\ chans' = [chans EXCEPT ![dr.recChan].buf = Tail(@)]
                     /\ dr' = [dr EXCEPT !.cur = <<Head(chans[dr.recChan].buf)>>]
                     /\ caller' = [caller EXCEPT !.pc = "idle",
                                      !.ret = nextReturns(<<Head(chans[dr.recChan].buf)>>)]
                ELSE /\ caller' = [caller EXCEPT !.pc = "idle", !.ret = "false"]
                     /\ UNCHANGED <<dr, chans>>
       \/ /\ dr.cancelled
          /\ caller' = [caller EXCEPT !.pc = "idle", !.ret = "false"]
          /\ UNCHANGED <<dr, chans, procs>>
    /\ UNCHANGED bodkin

\* Cancel cancels the context of the reader
Cancel ==
    /\ running /\ caller.pc = "idle" /\ dr.ops < MaxOps
    /\ dr' = [dr EXCEPT !.ops = @ + 1, !.cancelled = TRUE]
    /\ caller' = [caller EXCEPT !.op = "Cancel", !.ret = "nil"]
    /\ UNCHANGED <<chans, procs, bodkin>>

\* Reset, up to the start of decode2Chan: r.readCancel(), new channels,
\* r.inputCount = 0, and with an io.Reader r.br.Reset(r.rr), which drops
\* what is buffered, and go r.decode2Chan()
Reset ==
    /\ running /\ caller.pc = "idle" /\ dr.ops < MaxOps
    /\ chans' = chans \o <<makeChan(dr.inputBufferSize), makeChan(dr.recordBufferSize)>>
    /\ dr' = [dr EXCEPT !.ops = @ + 1, !.cancelled = TRUE,
                        !.anyChan = Len(chans) + 1, !.recChan = Len(chans) + 2,
                        !.bldDone = @ + 1, !.inputCount = 0,
                        !.br = IF dr.rr.present THEN <<>> ELSE @]
    /\ procs' = IF dr.rr.present THEN Append(procs, goroutine("decode2Chan")) ELSE procs
    /\ caller' = [caller EXCEPT !.op = "Reset", !.pc = "Reset", !.ret = "nil"]
    /\ UNCHANGED bodkin

\* r.wg.Add(1) for decode2Chan, with an io.Reader, and go r.recordFactory()
ResetFactory ==
    /\ running /\ caller.pc = "Reset"
    /\ dr' = [dr EXCEPT !.wg = IF dr.rr.present THEN @ + 1 ELSE @]
    /\ procs' = Append(procs, goroutine("recordFactory"))
    /\ caller' = [caller EXCEPT !.pc = "ResetAdd"]
    /\ UNCHANGED <<chans, bodkin>>

\* r.wg.Add(1), the last statement of Reset
ResetAdd ==
    /\ running /\ caller.pc = "ResetAdd"
    /\ dr' = [dr EXCEPT !.wg = @ + 1]
    /\ caller' = [caller EXCEPT !.pc = "idle"]
    /\ UNCHANGED <<chans, procs, bodkin>>

\* the options given to NewReader; the data of the io.Reader is a sequence of
\* delimited datums
ReaderOptions ==
    { ReaderOption([present |-> FALSE, data |-> <<>>], 0, 1, 2),
      ReaderOption([present |-> FALSE, data |-> <<>>], 2, 1, 2),
      ReaderOption([present |-> TRUE, data |-> <<>>], 0, 1, 2),
      ReaderOption([present |-> TRUE, data |-> <<Row(0, FALSE, FALSE)>>], 1, 1, 2),
      ReaderOption([present |-> TRUE, data |-> <<Row(1, TRUE, TRUE), Row(2, TRUE, TRUE)>>], 0, 1, 2),
      ReaderOption([present |-> TRUE, data |-> <<Row(1, TRUE, TRUE), Row(2, TRUE, FALSE)>>], 1, 1, 2),
      ReaderOption([present |-> TRUE, data |-> <<Row(1, TRUE, TRUE), Row(0, FALSE, FALSE),
                                                 Row(2, TRUE, TRUE), Row(3, TRUE, TRUE)>>], 2, 1, 2) }

InitReader ==
    /\ constructed(ScanOptions, NoReader)
    /\ \E o \in ReaderOptions : NewReader(o)

NextReader ==
    \/ NewReaderAdd
    \/ \E p \in 1..Len(procs) : decode2Chan(p)
    \/ \E p \in 1..Len(procs) : recordFactory(p)
    \/ \E a \in ManualRows : Read(a)
    \/ ReadSend
    \/ NextCall
    \/ NextWait
    \/ NextSelect
    \/ Cancel
    \/ Reset
    \/ ResetFactory
    \/ ResetAdd

SpecReader == InitReader /\ [][NextReader]_vars

(***************************************************************************)
(* The DataReader in scanner mode, read with Next alone; every goroutine   *)
(* that can take a step does so in the end.                                *)
(***************************************************************************)
InitScanner ==
    /\ constructed(ScanOptions, NoReader)
    /\ \E o \in {x \in ReaderOptions : x.rr.present} : NewReader(o)

NextScanner ==
    \/ NewReaderAdd
    \/ \E p \in 1..Len(procs) : decode2Chan(p)
    \/ \E p \in 1..Len(procs) : recordFactory(p)
    \/ NextCall
    \/ NextWait
    \/ NextSelect

SpecScanner ==
    /\ InitScanner /\ [][NextScanner]_vars
    /\ WF_vars(NewReaderAdd) /\ WF_vars(NextWait) /\ WF_vars(NextSelect)
    /\ \A p \in 1..2 : WF_vars(decode2Chan(p)) /\ WF_vars(recordFactory(p))

(***************************************************************************)
(* The queries of the engine.                                              *)
(***************************************************************************)
\* the arrow fields of the top-level children of a tree
fieldsOf(h, root) == childFields(h, root)

\* Schema without its check of u.old
SchemaUnguarded ==
    [err |-> "nil", fields |-> IF old = 0 THEN <<>> ELSE fieldsOf(heap, old)]

\* Schema returns the current merged Arrow schema
Schema ==
    IF old = 0 THEN [err |-> "bodkin not initialised", fields |-> <<>>]
    ELSE [err |-> "nil", fields |-> fieldsOf(heap, old)]

\* OriginSchema that reads the tree Unify mutates
OriginSchemaOfOld ==
    IF old = 0 THEN [err |-> "bodkin not initialised", fields |-> <<>>]
    ELSE [err |-> "nil", fields |-> fieldsOf(heap, old)]

\* OriginSchema returns the Arrow schema of the initial input
OriginSchema ==
    IF old = 0 THEN [err |-> "bodkin not initialised", fields |-> <<>>]
    ELSE [err |-> "nil", fields |-> fieldsOf(heap, original)]

\* CountPaths returns the count of evaluated field paths
CountPaths == Len(knownFields)

\* CountPending returns the count of unevaluated field paths
CountPending == Len(untypedFields)

unknown == 0
known == 1

\* strings.Count(p, ".")
countDots(p) == Cardinality({i \in 1..Len(p) : p[i] = "."})

\* the keys of the pairs from m.Newest() along Prev()
newestFirst(om) == [i \in 1..Len(om) |-> om[Len(om) + 1 - i].key]

RECURSIVE byDepth(_, _)
\* the loop that fills sortedPaths, from maxDepth down to 0
byDepth(paths, maxDepth) ==
    IF maxDepth < 0 THEN <<>>
    ELSE SelectSeq(paths, LAMBDA p : countDots(p) = maxDepth) \o byDepth(paths, maxDepth - 1)

sortMapKeysOldest(k) ==
    IF k \notin {known, unknown} THEN <<>>
    ELSE LET m == IF k = known THEN knownFields ELSE untypedFields
             paths == [i \in 1..Len(m) |-> m[i].key]
             maxDepth == IF Len(m) = 0 THEN 0
                         ELSE CHOOSE d \in 0..50 :
                                 /\ \A i \in 1..Len(paths) : countDots(paths[i]) <= d
                                 /\ d = 0 \/ \E i \in 1..Len(paths) : countDots(paths[i]) = d
         IN IF Len(m) = 0 THEN <<>> ELSE byDepth(paths, maxDepth)

\* the listing order of Paths() and Err()
sortMapKeysDesc(k) ==
    IF k \notin {known, unknown} THEN <<>>
    ELSE LET m == IF k = known THEN knownFields ELSE untypedFields
             paths == newestFirst(m)
             maxDepth == IF Len(m) = 0 THEN 0
                         ELSE CHOOSE d \in 0..50 :
                                 /\ \A i \in 1..Len(paths) : countDots(paths[i]) <= d
                                 /\ d = 0 \/ \E i \in 1..Len(paths) : countDots(paths[i]) = d
         IN IF Len(m) = 0 THEN <<>> ELSE byDepth(paths, maxDepth)

\* LastSchema returns the Arrow schema of the most recent input
LastSchema ==
    IF new = 0 THEN [err |-> "ErrNoLatestSchema", fields |-> <<>>]
    ELSE [err |-> "nil", fields |-> fieldsOf(heap, new)]

\* Count returns the number of datum evaluated for schema to date
Count == unificationCount

\* MaxCount returns the maximum number of datum to be evaluated for schema
MaxCountOf == unificationCount

(***************************************************************************)
(* Properties.  A step of the engine is one call; last is the call made    *)
(* by the step that led to a state.                                        *)
(***************************************************************************)
\* the nodes of the cumulative tree and of the tree of the last record that
\* path lookup reaches, each with its dotted path
cumulative == IF old = 0 THEN <<>> ELSE located(heap, old, <<>>)

latest == IF new = 0 THEN <<>> ELSE located(heap, new, <<>>)

\* the entries the step appends to the change log for a path
appended(key) ==
    SelectSeq(SubSeq(changes', Len(changes) + 1, Len(changes')), LAMBDA c : c.path = key)

\* C1: when Unify accepts a record and the next call is Unify of the same
\* record, the second call appends nothing to the change log and Schema()
\* returns exactly what it returned after the first call.
IdempotentUnify ==
    [][(/\ last.op = "Unify" /\ last.res = "nil"
        /\ last'.op = "Unify" /\ last'.res = "nil"
        /\ last'.rec = last.rec /\ calls' = calls + 1)
       => (changes' = changes /\ Schema' = Schema)]_vars

\* a record unified twice in a row into a tree whose log is not empty
IdempotentUnifyReached == repeated /\ Len(changes) > 0

\* the promotion order: integer -> float -> string, date32 -> timestamp ->
\* string, time64 -> string
higher(a, b) ==
    \/ a \in IntegerIDs /\ b \in FloatIDs \cup {"STRING"}
    \/ a \in FloatIDs /\ b = "STRING"
    \/ a = "DATE32" /\ b \in {"TIMESTAMP", "STRING"}
    \/ a \in {"TIMESTAMP", "TIME64"} /\ b = "STRING"

equalOrHigher(s, t) ==
    IF s.id = t.id THEN s.id \in {"STRUCT", "LIST"} \/ s = t ELSE higher(s.id, t.id)

\* the paths of a tree, each with the type of the node it leads to
typesAt(h, es) ==
    UNION {{[key |-> s[i].key, type |-> h[s[i].v].field.type] : i \in 1..Len(s)} : s \in {es}}

\* every path of before is a path of after, with an equal or higher type
keepsPaths(before, after) ==
    \A b \in {before}, a \in {after} :
       \A p \in b : \E q \in a : q.key = p.key /\ equalOrHigher(p.type, q.type)

IntegerSeenAsFloat ==
    [][(typeConversion /\ last'.op = "Unify" /\ last'.res = "nil" /\ calls' = calls + 1)
       => \A i \in 1..Len(cumulative), j \in 1..Len(latest') :
             (/\ cumulative[i].key = latest'[j].key
              /\ heap[cumulative[i].v].field.type.id \in IntegerIDs
              /\ heap'[latest'[j].v].field.type.id \in FloatIDs)
             => /\ heap'[cumulative[i].v].field.type = Float64
                /\ appended(cumulative[i].key) =
                      <<Change("changed", cumulative[i].key,
                               heap[cumulative[i].v].field.type, Float64)>>]_vars

\* the fields below a field of an exported schema: those of a struct, or
\* of the struct that is the element of a list
subFields(fld) ==
    CASE fld.type.id = "STRUCT" -> fld.type.sub
      [] fld.type.id = "LIST" /\ fld.type.sub[1].type.id = "STRUCT" -> fld.type.sub[1].type.sub
      [] OTHER -> <<>>

fieldNames(fields) == {fields[i].name : i \in 1..Len(fields)}

\* the fields an exported schema holds at a path of field names
RECURSIVE exportedAt(_, _)
exportedAt(fields, path) ==
    LET here == {fields[i] : i \in {k \in 1..Len(fields) : fields[k].name = path[1]}}
    IN IF Len(path) = 1 THEN here
       ELSE UNION {exportedAt(subFields(f), Tail(path)) : f \in here}

\* the struct nodes below f, each with the field names that lead to it; the
\* struct that is the element of a list is reached by the name of the list
RECURSIVE structPaths(_, _, _)
structPaths(h, f, prefix) ==
    UNION {LET p == IF h[f].field.type.id = "LIST" THEN prefix ELSE Append(prefix, e.k)
           IN (IF h[e.v].field.type.id = "STRUCT" THEN {[path |-> p, node |-> e.v]} ELSE {})
              \cup structPaths(h, e.v, p) : e \in h[f].childmap}

childNames(h, n) == {e.k : e \in h[n].childmap}

\* C4: after Unify(R1) then Unify(R2), Schema() holds every struct field of
\* R1 at its path under its own name, at every depth and below lists, and
\* the struct lists the child fields seen in R1 together with those seen
\* at the same path in R2.
StructFieldsKept ==
    [][(/\ calls = 1 /\ last.op = "Unify" /\ last.res = "nil"
        /\ last'.op = "Unify" /\ last'.res = "nil" /\ calls' = calls + 1)
       => \A sp \in structPaths(heap, old, <<>>) :
             \E f \in exportedAt(Schema'.fields, sp.path) :
                fieldNames(subFields(f)) =
                   childNames(heap, sp.node) \cup
                   UNION {childNames(heap', r.node) :
                             r \in {x \in structPaths(heap', new', <<>>) : x.path = sp.path}}]_vars

\* C5: when the mount path names a struct node M of the cumulative tree,
\* UnifyAtPath of a decodable record returns no error, the root keeps its
\* children, the struct type of M is its previous fields followed by the
\* new fields of the record, and the call appends exactly one added entry,
\* with path M.field, for each new field.
GraftAtMount ==
    [][(last'.op = "UnifyAtPath" /\ last'.rec # 0 /\ calls' = calls + 1)
       => \A i \in 1..Len(cumulative) :
             (cumulative[i].key = last'.mount /\ heap[cumulative[i].v].field.type.id = "STRUCT")
             => LET M == cumulative[i].v
                    fresh == SelectSeq(childFields(heap', new'),
                                       LAMBDA f : f.name \notin childNames(heap, M))
                IN /\ last'.res = "nil"
                   /\ heap'[old].children = heap[old].children
                   /\ heap'[M].field.type = StructOf(heap[M].field.type.sub \o fresh)
                   /\ \A k \in 1..Len(fresh) :
                         LET key == last'.mount \o <<".">> \o fresh[k].name
                         IN appended(key) = <<Change("added", key, NilType, fresh[k].type)>>]_vars

\* the nodes of the tree below and including f, by the children lists
RECURSIVE treeNodes(_, _)
treeNodes(h, f) == {f} \cup UNION {treeNodes(h, h[f].children[i]) : i \in 1..Len(h[f].children)}

\* a mount path names a node of the cumulative tree
named(mergeAt) == old # 0 /\ \E v \in treeNodes(heap, old) : dotPath(heap, v) = mergeAt

\* what C6 says a call with a mount path that names no node does
missingMountRejected ==
    /\ last'.res = "path not found"
    /\ Schema' = Schema /\ changes' = changes /\ heap' = heap
    /\ new' = new /\ LastSchema' = LastSchema /\ Count' = Count

\* C6, as amended: on an engine that Unify has initialised, UnifyAtPath with
\* a mount path that names no node of the cumulative tree returns the
\* path-not-found error and leaves the cumulative schema, the change log,
\* the tree of the last record and Count() as they were.
MissingMount ==
    [][(last'.op = "UnifyAtPath" /\ calls' = calls + 1 /\ old # 0 /\ ~named(last'.mount))
       => missingMountRejected]_vars

\* a rejected mount path on an engine with a change log and a last record
MissingMountReached ==
    /\ last.op = "UnifyAtPath" /\ last.res = "path not found"
    /\ ~named(last.mount) /\ Len(changes) > 0 /\ new # 0

\* C6, as claimed: UnifyAtPath with a mount path that names no node of the
\* cumulative tree returns the path-not-found error and changes nothing,
\* whatever the state of the engine.
MissingMountAnyEngine ==
    [][(last'.op = "UnifyAtPath" /\ calls' = calls + 1 /\ ~named(last'.mount))
       => missingMountRejected]_vars

\* C7: Unify of input that InputMap cannot decode returns the invalid-input
\* error and leaves the trees, the change log and Count() as they were.
InvalidInputRetainsNothing ==
    [][(last'.op = "Unify" /\ last'.rec = 0 /\ calls' = calls + 1)
       => /\ last'.res = "invalid input"
          /\ heap' = heap /\ original' = original /\ old' = old
          /\ changes' = changes /\ Count' = Count]_vars

\* undecodable input given to an engine that holds a tree and a change log
InvalidInputReached ==
    last.op = "Unify" /\ last.res = "invalid input" /\ old # 0 /\ Len(changes) > 0

\* C8: with WithMaxCount(n) and until the cap is reset, Count() is never
\* above n, and once Count() has reached n every Unify and UnifyAtPath call
\* returns the max-count-exceeded error and leaves the trees as they were.
CapEnforced ==
    [][(cfgMaxCount # 0 /\ ~capReset /\ calls' = calls + 1)
       => /\ Count' <= cfgMaxCount
          /\ (Count >= cfgMaxCount /\ last'.op \in {"Unify", "UnifyAtPath"})
                => (last'.res = "maxcount exceeded" /\ heap' = heap /\ old' = old)]_vars

\* C9: after NewBodkin(WithMaxCount(n)) and until ResetMaxCount, the
\* maxCount field is n and MaxCount() returns n.
CapConfigured ==
    (cfgMaxCount # 0 /\ ~capReset) => (maxCount = cfgMaxCount /\ MaxCountOf = cfgMaxCount)

\* C10: LastSchema() returns ErrNoLatestSchema exactly while no Unify or
\* UnifyAtPath call has succeeded, and after a call that succeeds it returns
\* the schema of the record of that call.
LastSchemaOfLatest ==
    [][calls' = calls + 1
       => /\ (LastSchema'.err = "ErrNoLatestSchema") <=> (old' = 0)
          /\ (last'.op \in {"Unify", "UnifyAtPath"} /\ last'.res = "nil")
                => \E m \in Orderings(Records[last'.rec]) :
                      LastSchema' = [err |-> "nil",
                                     fields |-> fieldsOf(mapToArrow(newFieldPos(<<>>), 1, m), 1)]]_vars

\* Schema() and OriginSchema() both return "bodkin not initialised"
Uninitialised ==
    /\ Schema.err = "bodkin not initialised"
    /\ OriginSchema.err = "bodkin not initialised"

\* the step is a Unify call that returns nil, made by the user or by the
\* loop of UnifyScan
unified ==
    /\ last'.op = "Unify" /\ last'.res = "nil"
    /\ \/ calls' = calls + 1
       \/ scan \in {"datum", "final"} /\ InputMap(datum).err = "nil"

\* the error stays until a Unify call returns nil and is gone from then on
initialisedByUnify ==
    IF Uninitialised /\ ~unified
    THEN Uninitialised'
    ELSE Schema'.err = "nil" /\ OriginSchema'.err = "nil"

\* C11, as amended: Schema() and OriginSchema() return "bodkin not
\* initialised" exactly while no Unify call, made directly or by UnifyScan
\* for one of its datums, has returned nil: failing calls of Unify and
\* UnifyAtPath and datums that UnifyScan cannot decode do not initialise the
\* engine, and after the first Unify that returns nil the error is never
\* returned again.
InitialisedByUnify == Uninitialised /\ [][initialisedByUnify]_vars

\* a UnifyScan call that returned an error after a failed call, the engine
\* still not initialised
InitialisedByUnifyReached ==
    /\ Uninitialised /\ calls = 2
    /\ last = Call("UnifyScan", 0, <<>>, "invalid input")

\* C11, as claimed: the above, and a UnifyScan call that returns an error
\* does not initialise the engine (here: as the first call made).
InitialisedBySuccess ==
    /\ Uninitialised
    /\ [][initialisedByUnify]_vars
    /\ []((calls = 1 /\ last.op = "UnifyScan" /\ last.res \notin {"nil", "scanning"})
            => Uninitialised)

\* the step is a call of Unify or UnifyAtPath that returns nil
accepted == last'.op \in {"Unify", "UnifyAtPath"} /\ last'.res = "nil"

\* C12: Count() is the number of Unify and UnifyAtPath calls that returned
\* nil since construction or the last ResetCount(): it starts at zero, a
\* call that returns nil adds exactly one, ResetCount() makes it zero and
\* every other call, a failing one included, leaves it as it was.
CountOfAccepted ==
    /\ Count = 0
    /\ [][calls' = calls + 1
           => Count' = IF last'.op = "ResetCount" THEN 0
                       ELSE IF accepted THEN Count + 1 ELSE Count]_vars

\* two accepted calls followed by a rejected UnifyAtPath
CountOfAcceptedReached ==
    Count = 2 /\ calls = 3 /\ last.op = "UnifyAtPath" /\ last.res = "path not found"

\* C13: ResetCount() makes the count zero and leaves the cumulative tree,
\* the original tree, the tree of the last record, the change log, the
\* path stores and the cap as they were.
ResetCountFrame ==
    [][(last'.op = "ResetCount" /\ calls' = calls + 1)
       => /\ Count' = 0
          /\ UNCHANGED <<heap, original, old, new, changes, knownFields,
                         untypedFields, maxCount>>
          /\ Schema' = Schema /\ OriginSchema' = OriginSchema
          /\ LastSchema' = LastSchema]_vars

\* the count reset on an engine that holds trees, a change log and paths
ResetCountFrameReached ==
    /\ last.op = "ResetCount" /\ Count = 0
    /\ new # 0 /\ Len(changes) > 0 /\ Len(knownFields) > 0

\* the entries the step appends to the change log
appendedAll == SubSeq(changes', Len(changes) + 1, Len(changes'))

\* the place of a top-level key among the children of the last record
placeOf(k) ==
    CHOOSE i \in 0..Len(heap'[new'].children) :
        IF \E j \in 1..Len(heap'[new'].children) : heap'[heap'[new'].children[j]].name = k
        THEN i > 0 /\ heap'[heap'[new'].children[i]].name = k
        ELSE i = 0

\* C14: the change log is append-only: every step leaves the previous log
\* as a prefix of the new one, so the entries of an earlier call come
\* before those of a later call; and the entries a Unify call appends
\* follow the order in which the call merges the columns of its record.
AppendOnlyLog ==
    [][/\ Len(changes) <= Len(changes')
       /\ SubSeq(changes', 1, Len(changes)) = changes
       /\ (last'.op = "Unify" /\ calls' = calls + 1)
             => \A es \in {appendedAll} : \A i, j \in 1..Len(es) :
                   i < j => placeOf(<<es[i].path[2]>>) <= placeOf(<<es[j].path[2]>>)]_vars

\* a Unify call that appended a promotion and a graft to a log that
\* already held an entry
AppendOnlyLogReached ==
    /\ last.op = "Unify" /\ Len(changes) >= 3
    /\ changes[Len(changes)].kind # changes[Len(changes) - 1].kind
    /\ changes[Len(changes)].path[2] # changes[Len(changes) - 1].path[2]

\* the path merge looks up for a node of the last record is absent from
\* the cumulative tree before the step
absent(n) == getPath(heap, old, mergePathOf(last'.mount) \o heap'[n].path) = 0

\* the nodes of the last record at which the step meets an absent path
graftRoots ==
    {n \in {latest'[i].v : i \in 1..Len(latest')} :
        absent(n) /\ (heap'[n].parent = new' \/ ~absent(heap'[n].parent))}

isPrefix(p, q) == Len(p) <= Len(q) /\ SubSeq(q, 1, Len(p)) = p

\* C15: when a call of Unify or UnifyAtPath that returns nil meets paths
\* absent from the cumulative tree, it appends exactly one added entry for
\* each, none for a descendant of a grafted subtree, and afterwards every
\* node of a grafted subtree is reached by path lookup in the cumulative
\* tree.
DeepGraft ==
    [][(accepted /\ calls' = calls + 1 /\ old # 0)
       => \A es \in {SelectSeq(appendedAll, LAMBDA c : c.kind = "added")}, cum \in {cumulative'} :
             /\ Len(es) = Cardinality(graftRoots)
             /\ \A i, j \in 1..Len(es) : i # j => ~isPrefix(es[i].path \o <<".">>, es[j].path)
             /\ \A i \in 1..Len(es) :
                   \E k \in 1..Len(cum) :
                      /\ cum[k].key = es[i].path
                      /\ \A d \in treeNodes(heap', cum[k].v) :
                            \E m \in 1..Len(cum) : cum[m].v = d]_vars

\* a nested subtree grafted by the last call
DeepGraftReached ==
    /\ last.op = "Unify" /\ last.res = "nil" /\ Len(changes) > 0
    /\ changes[Len(changes)].kind = "added"
    /\ changes[Len(changes)].to.id \in {"STRUCT", "LIST"}

\* the top-level keys of a record
keysOf(r) == {Records[r][i].k : i \in 1..Len(Records[r])}

\* the top-level fields inferred from a record alone
inferredFrom(r) ==
    LET m == CHOOSE m \in Orderings(Records[r]) : TRUE
        h == mapToArrow(newFieldPos(<<>>), 1, m)
    IN {h[h[1].children[i]].field : i \in 1..Len(h[1].children)}

\* C16: after Unify(R1); Unify(R2) on a fresh engine, for records R1 and R2
\* whose top-level key sets are disjoint, the set of top-level fields of
\* Schema() is the union of the fields inferred from R1 alone and from R2
\* alone -- an expression symmetric in R1 and R2, so that the two orders
\* export the same fields and differ at most in their order.
DisjointUnifyCommutes ==
    [][(/\ calls = 1 /\ last.op = "Unify" /\ last.res = "nil"
        /\ calls' = 2 /\ last'.op = "Unify" /\ last'.res = "nil"
        /\ keysOf(last.rec) \cap keysOf(last'.rec) = {})
       => /\ Schema'.err = "nil"
          /\ {Schema'.fields[i] : i \in 1..Len(Schema'.fields)}
                = inferredFrom(last.rec) \cup inferredFrom(last'.rec)]_vars

\* two records with disjoint keys unified on a fresh engine
DisjointUnifyReached ==
    /\ calls = 2 /\ unificationCount = 2 /\ last.op = "Unify" /\ last.res = "nil"
    /\ Len(changes) = 1 /\ changes[1].kind = "added"
    /\ Len(Schema.fields) = 2

\* the field names of a node path, the element names of lists left out
plainNames(path) == SelectSeq(path, LAMBDA n : Len(n) = 1)

\* an entry of the change log is for the path or for an ancestor of it
covers(c, key) == c.path = key \/ isPrefix(c.path \o <<".">>, key)

\* the path of an entry of the last record, pending before the step, is
\* resolved by it
resolved(e) ==
    /\ \E f \in exportedAt(Schema'.fields, plainNames(heap'[e.v].path)) :
          f.type = heap'[e.v].field.type
    /\ OMapHas(knownFields', e.key)
    /\ ~OMapHas(untypedFields', e.key)
    /\ \E i \in 1..Len(appendedAll) : covers(appendedAll[i], e.key)

\* C17: when a path is pending (seen so far only as null or as an empty
\* list) and Unify accepts a record with a concrete value there, then after
\* the call Schema() holds the path with the type of that record, the path
\* is in the known paths and not in the pending ones, and the call has
\* appended a change entry for it or for the subtree grafted around it.
PendingResolved ==
    [][(last'.op = "Unify" /\ last'.res = "nil" /\ calls' = calls + 1 /\ old # 0)
       => \A lt \in {latest'} : \A i \in 1..Len(lt) :
             OMapHas(untypedFields, lt[i].key) => resolved(lt[i])]_vars

\* the decoded record of a call
recordOf(r) == IF r <= Len(Records) THEN Records[r] ELSE PendingRecords[r - Len(Records)]

\* the dotted paths of the fields of a record, at every depth; the fields of
\* the structs of a list are below its element
RECURSIVE observed(_, _)
observed(m, prefix) ==
    UNION {LET p == Append(prefix, m[i].k)
               below == IF m[i].kind = "liststruct"
                        THEN Append(p, m[i].k \o <<".", "elem">>) ELSE p
           IN {dotPathOf(p)} \cup observed(m[i].items, below) : i \in 1..Len(m)}

keysIn(om) == {om[i].key : i \in 1..Len(om)}

attached == IF old = 0 THEN {} ELSE treeNodes(heap, old) \ {old}

\* C18: after any sequence of unifications every node of the cumulative tree
\* has a type and is in the known paths under its dotted path, and not in
\* the pending paths; every known path is a node of the tree and no pending
\* path is, so that CountPaths() is the number of nodes of the tree and
\* CountPending() the number of fields seen without a type; and every field
\* of every accepted record is, from then on, in one of the two stores.
KnownPendingPartition ==
    /\ [](\A kf \in {knownFields}, uf \in {untypedFields}, at \in {attached} :
            /\ \A n \in at :
                  /\ heap[n].field.type.id # "NIL"
                  /\ \E i \in 1..Len(kf) : kf[i].v = n /\ kf[i].key = dotPath(heap, n)
                  /\ dotPath(heap, n) \notin keysIn(uf)
            /\ \A i \in 1..Len(kf) : kf[i].v \in at
            /\ keysIn(kf) \cap keysIn(uf) = {}
            /\ CountPaths = Cardinality(at)
            /\ CountPaths + CountPending = Cardinality(keysIn(kf) \cup keysIn(uf)))
    /\ [][/\ (keysIn(knownFields) \cup keysIn(untypedFields))
                \subseteq (keysIn(knownFields') \cup keysIn(untypedFields'))
           /\ (last'.op = "Unify" /\ last'.res = "nil" /\ calls' = calls + 1)
                 => observed(recordOf(last'.rec), <<>>)
                       \subseteq (keysIn(knownFields') \cup keysIn(untypedFields'))]_vars

\* the exported schema holds the type the entry records at the entry's path
exportedAs(c, sch, h, cum) ==
    \E k \in 1..Len(cum) :
       /\ cum[k].key = c.path
       /\ \E f \in exportedAt(sch.fields, plainNames(h[cum[k].v].path)) : f.type = c.to

\* C19: with type conversion on, whenever an accepted call promotes a leaf,
\* at any depth, the field that Schema() exports holds the promoted type at
\* the path of the leaf: the composite type of every ancestor, a struct or
\* a list of structs, contains the new type of the leaf and not the old.
PromotionReachesAncestors ==
    [][(typeConversion /\ accepted /\ calls' = calls + 1)
       => \A es \in {appendedAll}, cum \in {cumulative'}, sch \in {Schema'} :
             \A i \in 1..Len(es) :
                es[i].kind = "changed" => exportedAs(es[i], sch, heap', cum)]_vars

\* the type a Date32 column is meant to take when it is seen with type t
promotedFromDate(t) == IF t.id = "TIMESTAMP" THEN Timestamp_us ELSE String

\* C20: with type conversion on, when Unify accepts a record that holds a
\* value of another type at the path of a Date32 column, the column becomes
\* timestamp[us] if the value is a timestamp and String otherwise, and the
\* call appends the entry changed from date32 to that type.
DatePromotion ==
    [][(typeConversion /\ last'.op = "Unify" /\ last'.res = "nil" /\ calls' = calls + 1)
       => \A cum \in {cumulative}, lt \in {latest'} :
             \A i \in 1..Len(cum), j \in 1..Len(lt) :
                (/\ cum[i].key = lt[j].key
                 /\ heap[cum[i].v].field.type = Date32
                 /\ heap'[lt[j].v].field.type.id # "DATE32")
                => \A t \in {promotedFromDate(heap'[lt[j].v].field.type)} :
                      /\ heap'[cum[i].v].field.type = t
                      /\ \E k \in 1..Len(appendedAll) :
                            appendedAll[k] = Change("changed", cum[i].key, Date32, t)]_vars

\* the pairs of a node of the cumulative tree and a node of the record the
\* step merges at the same path, as they are before and after the step
sameKeyPairs ==
    LET cum == cumulative
        lt == latest'
    IN {<<cum[i].v, lt[j].v>> :
           <<i, j>> \in {x \in (1..Len(cum)) \X (1..Len(lt)) : cum[x[1]].key = lt[x[2]].key}}

acceptedUnify == last'.op = "Unify" /\ last'.res = "nil" /\ calls' = calls + 1 /\ new' # 0

\* C21: with type conversion on, when Unify accepts a record that holds an
\* integer of another width at the path of an integer column, the column
\* becomes Int64.
IntegersWiden ==
    [][(typeConversion /\ acceptedUnify)
       => \A pr \in sameKeyPairs :
             (/\ heap[pr[1]].field.type.id \in IntegerIDs
              /\ heap'[pr[2]].field.type.id \in IntegerIDs
              /\ heap[pr[1]].field.type.id # heap'[pr[2]].field.type.id)
             => heap'[pr[1]].field.type = Int64]_vars

\* the changed entries the step appends for the path of node o
changedAt(o) ==
    SelectSeq(appendedAll, LAMBDA c : c.kind = "changed" /\ c.path = dotPath(heap, o))

\* C22: with type conversion on, when Unify accepts a record that holds a
\* value at the path of a Timestamp column, the column and the change log
\* stay as they were if the value is a timestamp; for a value of any other
\* type the column becomes String and one changed entry is appended.
TimestampPromotion ==
    [][(typeConversion /\ acceptedUnify)
       => \A pr \in sameKeyPairs :
             heap[pr[1]].field.type.id = "TIMESTAMP"
             => IF heap'[pr[2]].field.type.id = "TIMESTAMP"
                THEN heap'[pr[1]].field = heap[pr[1]].field /\ changedAt(pr[1]) = <<>>
                ELSE /\ heap'[pr[1]].field.type = String
                     /\ changedAt(pr[1]) =
                           <<Change("changed", dotPath(heap, pr[1]), heap[pr[1]].field.type, String)>>]_vars

\* the type of a column of type ta after a value of type tb is merged into
\* it: the type switch of merge and upgradeType applied to a column of its
\* own
promote(ta, tb) ==
    LET col == [newChild(newFieldPos(<<>>), 1, <<"a">>) EXCEPT !.field = Field(<<"a">>, ta)]
        val == [newChild(newFieldPos(<<>>), 1, <<"a">>) EXCEPT !.field = Field(<<"a">>, tb)]
        h == Append(Append(newFieldPos(<<>>), col), val)
        t == IF typeConversion /\ ta # tb /\ ta.id # tb.id THEN upgradeTarget(ta.id, tb.id) ELSE ""
        st == [heap |-> h, changes |-> <<>>, panic |-> FALSE]
    IN IF t = "" THEN ta ELSE upgradeType(st, 2, 3, t).heap[2].field.type

scalar(t) == t.id \notin {"STRUCT", "LIST"}

\* C23: with type conversion on, the type of a column first seen with type a
\* and then with type b is the type of a column first seen with type b and
\* then with type a.
PromotionCommutes ==
    [][(typeConversion /\ calls = 1 /\ last.op = "Unify" /\ last.res = "nil" /\ acceptedUnify)
       => \A pr \in sameKeyPairs :
             \A ta \in {heap[pr[1]].field.type}, tb \in {heap'[pr[2]].field.type} :
                (scalar(ta) /\ scalar(tb))
                => /\ heap'[pr[1]].field.type = promote(ta, tb)
                   /\ promote(ta, tb) = promote(tb, ta)]_vars

\* C24: once the type at a path is String, no call of Unify or UnifyAtPath,
\* with type conversion on or off, changes the type that path lookup finds
\* there or appends an entry for the path.
StringIsTop ==
    [][(calls' = calls + 1 /\ last'.op \in {"Unify", "UnifyAtPath"})
       => \A cum \in {cumulative}, after \in {cumulative'} :
             \A i \in 1..Len(cum) :
                heap[cum[i].v].field.type = String
                => /\ \E k \in 1..Len(after) :
                         after[k].key = cum[i].key /\ heap'[after[k].v].field.type = String
                   /\ \A k \in 1..Len(after) :
                         after[k].key = cum[i].key => heap'[after[k].v].field.type = String
                   /\ \A k \in 1..Len(appendedAll) : appendedAll[k].path # cum[i].key]_vars

\* C25: with type conversion off, a Unify that returns nil appends no
\* changed entry and leaves the field of every scalar column of the
\* cumulative tree as it was, whatever type the record holds there, and
\* afterwards every field of the record, the new children of existing
\* structs and list elements included, is found at its path in the
\* cumulative tree.
NoConversionStillGrafts ==
    [][(~typeConversion /\ acceptedUnify)
       => /\ \A k \in 1..Len(appendedAll) : appendedAll[k].kind = "added"
          /\ \A pr \in sameKeyPairs :
                scalar(heap[pr[1]].field.type) => heap'[pr[1]].field = heap[pr[1]].field
          /\ \A lt \in {latest'} :
                {lt[j].key : j \in 1..Len(lt)} \subseteq keysIn(cumulative')]_vars

\* with type conversion off: a column seen with two types and a field
\* grafted below an existing struct or list element
NoConversionReached ==
    /\ ~typeConversion /\ last.op = "Unify" /\ last.res = "nil" /\ new # 0
    /\ \E i \in 1..Len(cumulative), j \in 1..Len(latest) :
          /\ cumulative[i].key = latest[j].key
          /\ scalar(heap[cumulative[i].v].field.type)
          /\ heap[cumulative[i].v].field.type # heap[latest[j].v].field.type
    /\ \E k \in 1..Len(changes) : Len(changes[k].path) >= 4

\* C26: once a Unify has succeeded, every call of Unify, UnifyAtPath,
\* ResetCount and ResetMaxCount leaves the schema that OriginSchema() returns
\* as it was.
OriginSchemaFrozen ==
    [][old # 0 => OriginSchema' = OriginSchema]_vars

\* the cumulative tree has been grafted on and promoted, and has left the
\* original behind
OriginSchemaReached ==
    /\ old # 0 /\ OriginSchema.err = "nil" /\ OriginSchema.fields # Schema.fields
    /\ \E i, j \in 1..Len(changes) : changes[i].kind = "added" /\ changes[j].kind = "changed"

\* the step leaves the trees, the change log and the count as Unify of the
\* record of the call would
asUnify ==
    \E a \in {x \in Inputs \cup TypeInputs : x.rec = last'.rec} :
       LET f == Len(heap) + 1
           hf == mapToArrow(newFieldPos(heap), f, InputMap(a).m)
       IN Merged(hf, f, <<>>, a, "nil")

\* C27: on an initialised engine below its cap, UnifyAtPath of a decodable
\* record at the mount path "" or "$" returns nil and leaves the cumulative
\* tree, the change log and the count as Unify of that record would.
RootMountIsUnify ==
    [][(/\ calls' = calls + 1 /\ last'.op = "UnifyAtPath" /\ last'.mount \in RootMounts
        /\ last'.rec # 0 /\ old # 0 /\ unificationCount <= maxCount)
       => last'.res = "nil" /\ asUnify]_vars

\* the fields the step adds to the struct element of a top-level list that was
\* in the cumulative tree before the step, each with the name of its list
addedToElement ==
    {<<g, heap'[heap'[heap'[g].parent].parent].name>> :
        g \in {x \in attached' \ attached :
                  /\ heap'[x].parent \in attached
                  /\ heap'[heap'[x].parent].parent \in attached
                  /\ heap'[heap'[heap'[x].parent].parent].parent = old'
                  /\ heap'[heap'[heap'[x].parent].parent].field.type.id = "LIST"}}

\* C28: a field added by Unify to the struct element of a top-level list is
\* logged with the name of the list twice, as $list.list.elem.field: the
\* element node carries the name of its list followed by ".elem".
ListElementPath ==
    [][acceptedUnify
       => \A ge \in addedToElement :
             \E i \in 1..Len(appendedAll) :
                /\ appendedAll[i].kind = "added"
                /\ appendedAll[i].path = <<"$">> \o ge[2] \o <<".">> \o ge[2]
                                            \o <<".", "elem", ".">> \o heap'[ge[1]].name]_vars

\* a field has been added to the struct element of a list and logged
ListElementReached ==
    \E i \in 1..Len(changes), q \in attached :
       /\ heap[q].parent = old /\ heap[q].field.type.id = "LIST"
       /\ changes[i].kind = "added"
       /\ Len(changes[i].path) > Len(heap[q].name) + 1
       /\ SubSeq(changes[i].path, 1, Len(heap[q].name) + 1) = <<"$">> \o heap[q].name
       /\ \E e \in 1..Len(heap[q].children), g \in attached :
             heap[g].parent = heap[q].children[e] /\ dotPath(heap, g) = changes[i].path

\* C28 as stated: the field is logged with the name of the list once, as
\* $list.elem.field.
ListElementPathOnce ==
    [][acceptedUnify
       => \A ge \in addedToElement :
             \E i \in 1..Len(appendedAll) :
                /\ appendedAll[i].kind = "added"
                /\ appendedAll[i].path = <<"$">> \o ge[2] \o <<".", "elem", ".">>
                                            \o heap'[ge[1]].name]_vars

\* the pairs of fields the step appends, one before the other, to the children
\* of a node that was in the cumulative tree before the step
newSiblings ==
    UNION {{<<heap'[p].children[x[1]], heap'[p].children[x[2]]>> :
               x \in {y \in (1..Len(heap'[p].children)) \X (1..Len(heap'[p].children)) :
                         Len(heap[p].children) < y[1] /\ y[1] < y[2]}} :
           p \in attached \cup {old}}

\* the place at which the walker put the field of the record that g was
\* grafted from, among the children of its parent
walkerPlace(g) ==
    LET n == getPath(heap', new', heap'[g].path)
        cs == heap'[heap'[n].parent].children
    IN CHOOSE i \in 1..Len(cs) : cs[i] = n

\* the place of the added entry for g among the entries the step appends
loggedPlace(g) ==
    CHOOSE i \in 0..Len(appendedAll) :
        IF \E j \in 1..Len(appendedAll) : appendedAll[j].kind = "added" /\ appendedAll[j].path = dotPath(heap', g)
        THEN i > 0 /\ appendedAll[i].kind = "added" /\ appendedAll[i].path = dotPath(heap', g)
        ELSE i = 0

\* C29: new fields that one Unify grafts under the same node of the
\* cumulative tree, the root or a struct below it, are appended to the
\* children of that node, and logged, in the order in which the walker put
\* them in the tree of the record.
SiblingsInWalkerOrder ==
    [][acceptedUnify /\ old # 0
       => \A pr \in newSiblings :
             /\ walkerPlace(pr[1]) < walkerPlace(pr[2])
             /\ 0 < loggedPlace(pr[1]) /\ loggedPlace(pr[1]) < loggedPlace(pr[2])]_vars

\* the place of a key in the insertion order of a store
insertedAt(k, key) ==
    LET m == IF k = known THEN knownFields ELSE untypedFields
    IN CHOOSE i \in 1..Len(m) : m[i].key = key

\* C30: the listing order of Paths() and of Err() holds every key of the
\* store exactly once, deeper paths before shallower ones, and keys of equal
\* depth newest first, the reverse of their insertion order.
ListingNewestFirst ==
    \A k \in {known, unknown} :
       \A sp \in {sortMapKeysDesc(k)}, keys \in {keysIn(IF k = known THEN knownFields ELSE untypedFields)} :
          /\ Len(sp) = Cardinality(keys)
          /\ \A key \in keys : \E i \in 1..Len(sp) : sp[i] = key
          /\ \A i, j \in 1..Len(sp) :
                i < j => /\ countDots(sp[i]) >= countDots(sp[j])
                         /\ countDots(sp[i]) = countDots(sp[j])
                            => insertedAt(k, sp[i]) > insertedAt(k, sp[j])

\* a store holds keys of the same depth and keys of different depths, a
\* deeper one inserted after a shallower one
ListingReached ==
    \E k \in {known, unknown} :
       \E sp \in {sortMapKeysDesc(k)} :
          \E i, j, l \in 1..Len(sp) :
             /\ i < j /\ j < l
             /\ countDots(sp[i]) > countDots(sp[j])
             /\ countDots(sp[j]) = countDots(sp[l])
             /\ insertedAt(k, sp[i]) > insertedAt(k, sp[l])

\* C30 as stated: keys of equal depth are listed in their insertion order.
ListingInsertionOrder ==
    \A k \in {known, unknown} :
       \A sp \in {sortMapKeysDesc(k)}, keys \in {keysIn(IF k = known THEN knownFields ELSE untypedFields)} :
          /\ Len(sp) = Cardinality(keys)
          /\ \A key \in keys : \E i \in 1..Len(sp) : sp[i] = key
          /\ \A i, j \in 1..Len(sp) :
                i < j => /\ countDots(sp[i]) >= countDots(sp[j])
                         /\ countDots(sp[i]) = countDots(sp[j])
                            => insertedAt(k, sp[i]) < insertedAt(k, sp[j])

\* the reader holds a datum that reader.InputMap cannot decode
undecodable(r) == r.present /\ \E i \in 1..Len(r.data) : InputMap(r.data[i]).err # "nil"

\* C31: a UnifyScan call that reads a stream to its end returns an error
\* when a datum of the stream could not be decoded, wherever in the stream
\* that datum is, and also when the last datum is decoded.
ScanReportsUndecodable ==
    \A r \in Streams :
       (rr = r /\ undecodable(r))
       => []((calls = 1 /\ last.op = "UnifyScan" /\ last.res # "scanning") => last.res # "nil")

RECURSIVE flatten(_)
\* the rows of a sequence of records, in order
flatten(recs) == IF recs = <<>> THEN <<>> ELSE Head(recs) \o flatten(Tail(recs))

\* C32: with chunk size 0 or 1 every record the reader makes holds one row,
\* with chunk size n > 1 every record holds n rows, but for the last, which
\* holds from 1 to n; and the rows of the records are the accepted datums,
\* each once and in their order.
RecordsByChunk ==
    dr.made
    => /\ \A i \in 1..Len(dr.built) :
             IF dr.chunk <= 1 THEN Len(dr.built[i]) = 1
             ELSE \/ Len(dr.built[i]) = dr.chunk
                  \/ i = Len(dr.built) /\ Len(dr.built[i]) \in 1..dr.chunk
       /\ \A rows \in {flatten(dr.built)} :
             Len(rows) <= Len(dr.accepted) /\ rows = SubSeq(dr.accepted, 1, Len(rows))

\* the goroutines of a kind that have passed their guard and not returned
live(fn) == {p \in 1..Len(procs) : procs[p].fn = fn /\ procs[p].pc \notin {"start", "exited"}}

\* C34: when Reset has returned, the context of the reader is not
\* cancelled, and a recordFactory that runs has taken the channels that Reset
\* made; a datum then given to Read is converted and Next returns true.
ResetIsFresh ==
    (dr.made /\ caller.op = "Reset" /\ caller.pc = "idle")
    => /\ ~dr.cancelled
       /\ \A p \in live("recordFactory") :
             /\ procs[p].recChan = dr.recChan
             /\ procs[p].anyChan \in {0, dr.anyChan}

\* C40: the counter of the WaitGroup of the reader is never negative.
WaitGroupNotNegative ==
    dr.made => dr.wg >= 0

\* C33: with an io.Reader, every call of Next returns, and a call that finds
\* the goroutines gone and no record left returns false.
NextReturns ==
    /\ (caller.op = "Next" /\ caller.pc # "idle") ~> (caller.pc = "idle")
    /\ []((/\ caller.op = "Next" /\ caller.pc = "idle" /\ dr.cur = <<>>
            /\ \A p \in 1..Len(procs) : procs[p].pc = "exited")
           => caller.ret = "false")

\* C35: in the cumulative tree no two nodes have the same dotted path: the
\* children of every node have different names and the child map of the
\* node holds each of them under its name.
PathsUnique ==
    old # 0
    => \A at \in {attached \cup {old}} :
          /\ \A n, m \in at \ {old} : dotPath(heap, n) = dotPath(heap, m) => n = m
          /\ \A n \in at :
                /\ \A i, j \in 1..Len(heap[n].children) :
                      heap[heap[n].children[i]].name = heap[heap[n].children[j]].name => i = j
                /\ heap[n].childmap =
                      {[k |-> heap[heap[n].children[i]].name, v |-> heap[n].children[i]] :
                          i \in 1..Len(heap[n].children)}

\* C36: every node of the cumulative tree below the root has a parent of
\* type Struct or List, so that no child hangs under a scalar, and every
\* added entry of the change log names a field of the exported schema.
ParentsAreContainers ==
    old # 0
    => /\ \A n \in attached : heap[heap[n].parent].field.type.id \in {"STRUCT", "LIST"}
       /\ \A cum \in {cumulative}, sch \in {Schema} :
             \A i \in 1..Len(changes) :
                changes[i].kind = "added"
                => \E k \in 1..Len(cum) :
                      /\ cum[k].key = changes[i].path
                      /\ exportedAt(sch.fields, plainNames(heap[cum[k].v].path)) # {}

\* C38: every node of the cumulative tree below the root has as its parent
\* a node of the cumulative tree that holds it among its children; no node
\* points into the tree of a record.
ParentsOwnChildren ==
    old # 0
    => \A at \in {attached} :
          \A n \in at :
             /\ heap[n].parent \in at \cup {old}
             /\ \E i \in 1..Len(heap[heap[n].parent].children) :
                   heap[heap[n].parent].children[i] = n

\* C39: the field of every node of the cumulative tree below the root has
\* the name of the node; a graft under a struct leaves the name of the
\* field of the struct as it was.
FieldNamesKept ==
    old # 0 => \A n \in attached : heap[n].field.name = heap[n].name

\* the matchers in the order of the claim, each with the type it gives
precedence ==
    << [m |-> "timestamp", temporal |-> TRUE, type |-> Timestamp_us],
       [m |-> "date", temporal |-> TRUE, type |-> Date32],
       [m |-> "time", temporal |-> TRUE, type |-> Time64ns],
       [m |-> "bool", temporal |-> FALSE, type |-> Boolean],
       [m |-> "integer", temporal |-> FALSE, type |-> Int64],
       [m |-> "float", temporal |-> FALSE, type |-> Float64] >>

\* the matchers of the list that are applied and match a value
matching(val) ==
    {i \in 1..Len(precedence) :
        /\ precedence[i].m \in val.ms
        /\ IF precedence[i].temporal THEN inferTimeUnits ELSE ~quotedValuesAreStrings}

\* the string value of the record of the step
classified ==
    {e.val : e \in {ClassifyRecords[r][1] :
                       r \in {x \in 1..Len(ClassifyRecords) : \E a \in ClassifyInputs :
                                 a.rec = last'.rec /\ a.m = ClassifyRecords[x]}}}

\* C37: the type Unify gives a string value is that of the first matcher,
\* in the order timestamp, date, time, bool, integer, float, that is applied
\* and matches it, and String when there is none; the first three are
\* applied with inferTimeUnits, the last three without
\* quotedValuesAreStrings.
ClassifierPrecedence ==
    [][acceptedUnify
       => \A val \in classified :
             \A hit \in {matching(val)} :
                heap'[heap'[new'].children[1]].field.type =
                   IF hit = {} THEN String
                   ELSE precedence[CHOOSE i \in hit : \A j \in hit : i <= j].type]_vars

\* "42", which integerMatcher and floatMatcher both match, has been given
\* the type of an integer, and with quotedValuesAreStrings a date has been
\* given that of a date
ClassifierReached ==
    /\ new # 0 /\ last.op = "Unify" /\ last.res = "nil"
    /\ \E a \in ClassifyInputs :
          /\ a.rec = last.rec
          /\ \/ /\ a.m[1].val = StrQuotedInt /\ ~quotedValuesAreStrings
                /\ \E k \in 1..Len(latest) : heap[latest[k].v].field.type = Int64
             \/ /\ a.m[1].val = StrDate /\ quotedValuesAreStrings /\ inferTimeUnits
                /\ \E k \in 1..Len(latest) : heap[latest[k].v].field.type = Date32

====
